---- MODULE Spec2Model ----
(***************************************************************************)
(* Model of the OMI fleet controller (server/app: BroadcastManager,        *)
(* DeviceRegistry, db) and of the OMI agent (client: AgentRuntime,         *)
(* AppHandler, jsonconfig).                                                *)
(*                                                                         *)
(* The controller half has two threads that call into BroadcastManager:    *)
(* the listener thread ("listen", _listen_loop) and the HTTP event loop    *)
(* ("http", the async FastAPI routes, which call the blocking request_*    *)
(* methods directly).  Code that runs under pending_lock or the registry   *)
(* lock is one atomic step; everything between two lock regions is a       *)
(* separate step of the calling thread.                                    *)
(***************************************************************************)
EXTENDS Integers, Sequences, FiniteSets, TLC

\* ---------------------------------------------------------------- bounds
MaxReq == 2          \* request ids (uuid4) handed out in one run
MaxTime == 9         \* the clock stops here
MaxIndex == 1        \* largest ordinal index an agent reports

\* ------------------------------------------------------ program constants
StatusTtl == 6       \* Settings.status_ttl
DiscoverInterval == 3 \* Settings.discover_interval

Serials == {"s1", "s2"}
Threads == {"http", "listen"}
Services == {"standby", "MIDI", "OSC"}
ReqIds == 1..MaxReq

HttpOk == 200
HttpBadRequest == 400
HttpServerError == 500
HttpGatewayTimeout == 504

\* ------------------------------------------------------------- variables
VARIABLES
    \* controller -----------------------------------------------------
    pending,        \* BroadcastManager.pending: request ids in the table
    reqs,           \* the PendingRequest objects, by request id
    pending_index,  \* BroadcastManager.pending_index
    command_socket, \* "none" (never started) | "open" | "closed"
    stop_evt,       \* BroadcastManager.stop_evt
    sent,           \* datagrams sent on the command socket
    th,             \* per thread: position inside a request_* call
    calls,          \* per request id: the call that owns it and how it ended
    devices,        \* DeviceRegistry._devices
    service_state,  \* per serial: service_state["transition"] of the entry
    db,             \* the devices table of omi.db
    listing,        \* result of the last DeviceRegistry.list_devices()
    lastStatusAt,   \* per serial: arrival time of the last AGENT_STATUS
    now,            \* time.time()
    nextId          \* number of request ids handed out

ctlVars == <<pending, reqs, pending_index, command_socket, stop_evt, sent, th,
             calls, devices, service_state, db, listing, lastStatusAt, now,
             nextId>>

VARIABLES
    \* AppHandler module globals ---------------------------------------
    proc,            \* _proc: pid of the Popen handle, NoPid for None
    name,            \* _name
    last_error,      \* _last_error: "none" | "return code" | "spawn" | "terminate"
    last_returncode, \* _last_returncode
    \* the operating system ---------------------------------------------
    alive,           \* child processes that are running
    proc_rc,         \* what _proc.poll() returns once the child has exited
    nextPid,         \* pids handed out so far
    disk,            \* "ok" | "full": whether a write of the file succeeds
    \* jsonconfig --------------------------------------------------------
    file,            \* the enabled service in structure.json, or "truncated"
    \* AgentRuntime -----------------------------------------------------
    cfg,             \* the enabled service in self.cfg ("none" before boot)
    service_status,  \* transition, stage and progress of self.service_status
    service_error,   \* self.service_error
    service_lock,    \* the thread that holds service_lock
    wk,              \* per thread: position inside _apply_active_service
    mon,             \* locals of _service_monitor_loop
    acks,            \* per request id: the SERVICE_ACKs sent, in order
    nextCmd          \* SET_SERVICE commands received so far

VARIABLES
    \* identity.index of the agent ----------------------------------------
    file_index,      \* identity.index in structure.json
    cfg_index,       \* identity.index in self.cfg
    data,            \* per thread: the config dict a jsonconfig call read
    index_ack        \* the last INDEX_ACK sent

idxVars == <<file_index, cfg_index, data, index_ack>>

VARIABLES
    \* jsonconfig, entry by entry ------------------------------------------
    structure,       \* structure.json: whether it parses, and its "services"
    jc_call          \* the last call into jsonconfig and how it ended

jcVars == <<structure, jc_call>>

agVars == <<proc, name, last_error, last_returncode, alive, proc_rc, nextPid,
            disk, file, cfg, service_status, service_error, service_lock, wk,
            mon, acks, nextCmd, idxVars, jcVars>>

vars == <<ctlVars, agVars>>

\* ------------------------------------------------------------ PendingRequest
NoPayload == [has |-> FALSE, ok |-> FALSE, transition |-> FALSE,
              src |-> "none"]

\* PendingRequest.__init__
NewPendingRequest == [event |-> FALSE, payload |-> NoPayload]

\* PendingRequest.update
PendingUpdate(p, payload) == [p EXCEPT !.payload = payload]

\* PendingRequest.set
PendingSet(p, payload) == [p EXCEPT !.payload = payload, !.event = TRUE]

\* the payloads a PendingRequest can hold: the ack datagram, or the dict
\* written by stop() and by _send_command
AckPayload(m) == [has |-> TRUE, ok |-> m.ok, transition |-> m.transition,
                  src |-> "ack"]
ShutdownPayload == [has |-> TRUE, ok |-> FALSE, transition |-> FALSE,
                    src |-> "shutdown"]
SendErrorPayload == [has |-> TRUE, ok |-> FALSE, transition |-> FALSE,
                     src |-> "send_error"]

\* ------------------------------------------------------------------ db.py
NoRow == [exists |-> FALSE, device_index |-> 0, desired_service |-> "none"]

\* the first ordinal, whatever is in use
NextDeviceIndexFirst(d) == 1

\* db._next_device_index
NextDeviceIndex(d) ==
    LET used == {d[s].device_index : s \in {x \in Serials : d[x].exists}} \ {0}
    IN  CHOOSE c \in 1..(Cardinality(Serials) + 1) :
            /\ c \notin used
            /\ \A k \in 1..(c - 1) : k \in used

\* an index assigned anew at every call
EnsureDeviceIndexFresh(d, serial) ==
    [d EXCEPT ![serial] = [exists |-> TRUE,
                           device_index |-> NextDeviceIndex(d),
                           desired_service |-> d[serial].desired_service]]

\* db.ensure_device_index: the table after the call
EnsureDeviceIndexDb(d, serial) ==
    IF ~d[serial].exists
    THEN [d EXCEPT ![serial] = [exists |-> TRUE,
                                device_index |-> NextDeviceIndex(d),
                                desired_service |-> "none"]]
    ELSE IF d[serial].device_index # 0
    THEN d
    ELSE [d EXCEPT ![serial].device_index = NextDeviceIndex(d)]

\* db.ensure_device_index: the value returned
EnsureDeviceIndex(d, serial) == EnsureDeviceIndexDb(d, serial)[serial].device_index

\* db.upsert_device, renaming of the legacy service id
NormalizeService(service) == IF service = "OSC" THEN "OSCnum" ELSE service

\* db.upsert_device(serial, desired_service=..)
UpsertDesired(d, serial, service) ==
    IF d[serial].exists
    THEN [d EXCEPT ![serial].desired_service = NormalizeService(service),
                   ![serial].device_index =
                        IF @ = 0 THEN NextDeviceIndex(d) ELSE @]
    ELSE [d EXCEPT ![serial] = [exists |-> TRUE,
                                device_index |-> NextDeviceIndex(d),
                                desired_service |-> NormalizeService(service)]]

\* ------------------------------------------------------------- registry.py
NoDevice == [known |-> FALSE, ip |-> FALSE, index |-> 0, last_seen |-> 0]

\* DeviceRegistry.get_device(serial) is not None
DeviceKnown(serial) == devices[serial].known

\* the comparison with the boundary on the wrong side
OnlineInclusive(dev, t) == (t - dev.last_seen) <= StatusTtl

\* the online flag DeviceRegistry.list_devices derives for one entry
Online(dev, t) == (t - dev.last_seen) < StatusTtl

\* DeviceRegistry.update_services (acks always carry services/service_state)
UpdateServices(devs, serial, t) ==
    IF ~devs[serial].known THEN devs
    ELSE [devs EXCEPT ![serial].last_seen = t]

\* DeviceRegistry.update_services, lines 59-69: the transition flag of the
\* entry's service_state after an ack (the payload's service_state, taken by
\* the agent with the flag the ack carries, replaces the entry's)
UpdateServiceState(ss, devs, serial, transition) ==
    IF ~devs[serial].known THEN ss
    ELSE [ss EXCEPT ![serial] = transition]

\* DeviceRegistry.update_index
UpdateIndex(devs, serial, index) ==
    IF index = 0 \/ ~devs[serial].known THEN devs
    ELSE [devs EXCEPT ![serial].index = index]

\* ------------------------------------------------------------------- state
NoMsg == [type |-> "none", rid |-> 0, ok |-> FALSE, transition |-> FALSE,
          serial |-> "s1", index |-> 0]

IdleThread == [pc |-> "idle", op |-> "none", serial |-> "s1", rid |-> 0,
               service |-> "none", index |-> 0, result |-> "none",
               status |-> 0, loop |-> FALSE, todo |-> {},
               snap |-> [s \in Serials |-> 0], msg |-> NoMsg]

NoCall == [op |-> "none", serial |-> "s1", outcome |-> "unused"]

InitController ==
    /\ pending = {}
    /\ reqs = [r \in ReqIds |-> NewPendingRequest]
    /\ pending_index = {}
    /\ command_socket = "none"
    /\ stop_evt = FALSE
    /\ sent = {}
    /\ th = [t \in Threads |-> IdleThread]
    /\ calls = [r \in ReqIds |-> NoCall]
    /\ devices = [s \in Serials |-> NoDevice]
    /\ service_state = [s \in Serials |-> FALSE]
    /\ db = [s \in Serials |-> NoRow]
    /\ listing = [s \in Serials |-> "absent"]
    /\ lastStatusAt = [s \in Serials |-> -1]
    /\ now = 0
    /\ nextId = 0

\* ------------------------------------------------------ thread bookkeeping
\* a request_* call of thread t ends (returns or raises): back to the caller
ReturnOf(t, op, result, status) ==
    [IdleThread EXCEPT !.pc = IF th[t].loop THEN "del_loop" ELSE "idle",
                       !.loop = th[t].loop, !.todo = th[t].todo,
                       !.snap = th[t].snap, !.op = op,
                       !.result = result, !.status = status]

Return(t, result, status) == ReturnOf(t, th[t].op, result, status)

EndCall(rid, outcome) == [calls EXCEPT ![rid].outcome = outcome]

\* uuid.uuid4(): a request id never handed out before
FreshId == nextId + 1

\* ------------------------------------------------- BroadcastManager.start
Start ==
    /\ command_socket # "open"
    /\ th["listen"].pc = "idle"
    /\ command_socket' = "open"
    /\ stop_evt' = FALSE
    /\ UNCHANGED <<pending, reqs, pending_index, sent, th, calls, devices, db,
                   listing, lastStatusAt, now, nextId>>
    /\ UNCHANGED <<service_state, agVars>>

\* -------------------------------------------------- BroadcastManager.stop
StopSweep(rs) ==
    [r \in ReqIds |-> IF r \in pending THEN PendingSet(rs[r], ShutdownPayload)
                      ELSE rs[r]]

\* stop() is called by the application's shutdown handler, which the event
\* loop runs: never while a route is inside a request_* call
Stop ==
    /\ th["http"].pc = "idle"
    /\ stop_evt' = TRUE
    /\ command_socket' = IF command_socket = "open" THEN "closed"
                         ELSE command_socket
    /\ reqs' = StopSweep(reqs)
    /\ pending' = {}
    /\ pending_index' = {}
    /\ UNCHANGED <<sent, th, calls, devices, db, listing, lastStatusAt, now,
                   nextId>>
    /\ UNCHANGED <<service_state, agVars>>

\* ------------------------------------------------------------- time.time()
\* the clock is read once per discover interval
Tick ==
    /\ now + DiscoverInterval <= MaxTime
    /\ now' = now + DiscoverInterval
    /\ UNCHANGED <<pending, reqs, pending_index, command_socket, stop_evt,
                   sent, th, calls, devices, db, listing, lastStatusAt, nextId>>
    /\ UNCHANGED <<service_state, agVars>>

\* ------------------------------------------- DeviceRegistry.list_devices
ListDevicesResult ==
    [s \in Serials |-> IF ~devices[s].known THEN "absent"
                       ELSE IF Online(devices[s], now) THEN "online"
                       ELSE "offline"]

\* GET /api/devices
ListDevices ==
    /\ th["http"].pc = "idle"
    /\ listing' = ListDevicesResult
    /\ UNCHANGED <<pending, reqs, pending_index, command_socket, stop_evt,
                   sent, th, calls, devices, db, lastStatusAt, now, nextId>>
    /\ UNCHANGED <<service_state, agVars>>

\* the lookup without its two validation errors
ValidDeviceUnchecked(serial) == TRUE

\* --------------------------------- BroadcastManager.request_service_change
\* lines 225-249: the device lookup, the two validation errors, the request id
ValidDevice(serial) == devices[serial].known /\ devices[serial].ip

BeginServiceChange(serial, service) ==
    /\ th["http"].pc = "idle"
    /\ IF ~ValidDevice(serial)
       THEN /\ th' = [th EXCEPT !["http"] =
                        ReturnOf("http", "service", "validation",
                                 HttpBadRequest)]
            /\ UNCHANGED <<calls, nextId>>
       ELSE /\ nextId < MaxReq
            /\ th' = [th EXCEPT !["http"] =
                        [IdleThread EXCEPT !.pc = "register", !.op = "service",
                                           !.serial = serial, !.rid = FreshId,
                                           !.service = service]]
            /\ calls' = [calls EXCEPT ![FreshId] =
                            [op |-> "service", serial |-> serial,
                             outcome |-> "active"]]
            /\ nextId' = FreshId
    /\ UNCHANGED <<pending, reqs, pending_index, command_socket, stop_evt,
                   sent, devices, db, listing, lastStatusAt, now>>
    /\ UNCHANGED <<service_state, agVars>>

\* ----------------------------------- BroadcastManager.request_power_action
PowerActions == {"shutdown", "reboot"}

BeginPowerAction(serial, action) ==
    /\ th["http"].pc = "idle"
    /\ IF action \notin PowerActions \/ ~ValidDevice(serial)
       THEN /\ th' = [th EXCEPT !["http"] =
                        ReturnOf("http", "power", "validation",
                                 HttpBadRequest)]
            /\ UNCHANGED <<calls, nextId>>
       ELSE /\ nextId < MaxReq
            /\ th' = [th EXCEPT !["http"] =
                        [IdleThread EXCEPT !.pc = "register", !.op = "power",
                                           !.serial = serial, !.rid = FreshId]]
            /\ calls' = [calls EXCEPT ![FreshId] =
                            [op |-> "power", serial |-> serial,
                             outcome |-> "active"]]
            /\ nextId' = FreshId
    /\ UNCHANGED <<pending, reqs, pending_index, command_socket, stop_evt,
                   sent, devices, db, listing, lastStatusAt, now>>
    /\ UNCHANGED <<service_state, agVars>>

\* ----------------------------------- BroadcastManager.request_index_update
\* lines 336-350: entry of the call by thread t; the caller catches what it
\* raises (routes.py:188-195, broadcast.py:132-135)
EnterIndexUpdate(t, base, serial, index) ==
    IF ~ValidDevice(serial)
    THEN [base EXCEPT !.pc = IF base.loop THEN "del_loop" ELSE "idle",
                      !.op = "index", !.result = "validation",
                      !.status = HttpBadRequest]
    ELSE [base EXCEPT !.pc = "idx_check", !.op = "index", !.serial = serial,
                      !.index = index, !.rid = 0, !.result = "none",
                      !.status = 0]

\* the HTTP layer calls request_index_update(serial, index)
BeginIndexUpdate(serial, index) ==
    /\ th["http"].pc = "idle"
    /\ nextId < MaxReq
    /\ th' = [th EXCEPT !["http"] =
                EnterIndexUpdate("http", IdleThread, serial, index)]
    /\ UNCHANGED <<pending, reqs, pending_index, command_socket, stop_evt,
                   sent, calls, devices, db, listing, lastStatusAt, now,
                   nextId>>
    /\ UNCHANGED <<service_state, agVars>>

\* lines 352-362: the dedup check under pending_lock, then the request id
IndexDedupHit(serial) == serial \in pending_index

IndexCheck(t) ==
    /\ th[t].pc = "idx_check"
    /\ IF IndexDedupHit(th[t].serial)
       THEN /\ th' = [th EXCEPT ![t] = Return(t, "pending", HttpOk)]
            /\ UNCHANGED <<calls, nextId>>
       ELSE /\ nextId < MaxReq
            /\ th' = [th EXCEPT ![t].pc = "register", ![t].rid = FreshId]
            /\ calls' = [calls EXCEPT ![FreshId] =
                            [op |-> "index", serial |-> th[t].serial,
                             outcome |-> "active"]]
            /\ nextId' = FreshId
    /\ UNCHANGED <<pending, reqs, pending_index, command_socket, stop_evt,
                   sent, devices, db, listing, lastStatusAt, now>>
    /\ UNCHANGED <<service_state, agVars>>

\* ---------------------------------------------- the shared request pattern
\* lines 251-253, 315-317, 364-367: register the PendingRequest under the lock
Register(t) ==
    /\ th[t].pc = "register"
    /\ pending' = pending \cup {th[t].rid}
    /\ pending_index' = IF th[t].op = "index"
                        THEN pending_index \cup {th[t].serial}
                        ELSE pending_index
    /\ th' = [th EXCEPT ![t].pc = "send"]
    /\ UNCHANGED <<reqs, command_socket, stop_evt, sent, calls, devices, db,
                   listing, lastStatusAt, now, nextId>>
    /\ UNCHANGED <<service_state, agVars>>

\* BroadcastManager._send_command, lines 399-404: the sweep after sendto raised
SendFailureSwept == {r \in pending : ~reqs[r].payload.has}

SendFailureSweep(rs) ==
    [r \in ReqIds |-> IF r \in SendFailureSwept
                      THEN PendingSet(rs[r], SendErrorPayload) ELSE rs[r]]

\* the command as sent: its type, the device it goes to, its request_id and,
\* in a SET_INDEX, its index
Datagram(t) ==
    [type |-> th[t].op, serial |-> th[t].serial, rid |-> th[t].rid,
     index |-> IF th[t].op = "index" THEN th[t].index ELSE 0]

\* BroadcastManager._send_command
SendCommand(t) ==
    /\ th[t].pc = "send"
    /\ \/ /\ command_socket = "none"
          /\ th' = [th EXCEPT ![t] = Return(t, "no_socket", HttpServerError)]
          /\ calls' = EndCall(th[t].rid, "no_socket")
          /\ UNCHANGED <<pending, reqs, sent>>
       \/ /\ command_socket = "open"
          /\ sent' = sent \cup {Datagram(t)}
          /\ th' = [th EXCEPT ![t].pc = "wait"]
          /\ UNCHANGED <<pending, reqs, calls>>
       \/ /\ command_socket # "none"
          /\ reqs' = SendFailureSweep(reqs)
          /\ pending' = pending \ SendFailureSwept
          /\ th' = [th EXCEPT ![t] = Return(t, "send_error", HttpServerError)]
          /\ calls' = EndCall(th[t].rid, "send_error")
          /\ UNCHANGED sent
    /\ UNCHANGED <<pending_index, command_socket, stop_evt, devices, db,
                   listing, lastStatusAt, now, nextId>>
    /\ UNCHANGED <<service_state, agVars>>

\* the upsert of line 278 reached whatever the reply says
PersistsDesiredAlways(op, reply) == op = "service"

\* lines 269-278: db.upsert_device(desired_service) is reached only past
\* the `if not reply.get("ok")` that raises
PersistsDesired(op, reply) == op = "service" /\ reply.has /\ reply.ok

\* PendingRequest.wait returned the payload: lines 269-279, 333, 384-386
WaitReturn(t) ==
    /\ th[t].pc = "wait"
    /\ reqs[th[t].rid].event
    /\ LET reply == reqs[th[t].rid].payload
           okReply == reply.has /\ reply.ok
       IN  /\ th' = [th EXCEPT ![t] =
                        IF th[t].op = "service" /\ ~okReply
                        THEN Return(t, "rejected", HttpBadRequest)
                        ELSE Return(t, IF okReply THEN "ok" ELSE "not_ok",
                                    HttpOk)]
           /\ calls' = EndCall(th[t].rid,
                               IF okReply THEN "ok" ELSE "rejected")
           /\ db' = IF PersistsDesired(th[t].op, reply)
                    THEN UpsertDesired(db, th[t].serial, th[t].service)
                    ELSE db
           /\ pending_index' = IF th[t].op = "index"
                               THEN pending_index \ {th[t].serial}
                               ELSE pending_index
    /\ UNCHANGED <<pending, reqs, command_socket, stop_evt, sent, devices,
                   listing, lastStatusAt, now, nextId>>
    /\ UNCHANGED <<service_state, agVars>>

\* PendingRequest.wait: the deadline passed with the event not set
WaitTimeout(t) ==
    /\ th[t].pc = "wait"
    /\ ~reqs[th[t].rid].event
    /\ th' = [th EXCEPT ![t].pc = "timeout"]
    /\ UNCHANGED <<pending, reqs, pending_index, command_socket, stop_evt,
                   sent, calls, devices, db, listing, lastStatusAt, now,
                   nextId>>
    /\ UNCHANGED <<service_state, agVars>>

\* the except branch without its pop
TimeoutPendingKept(t) == pending

\* the pending table after the except TimeoutError branch
TimeoutPending(t) == pending \ {th[t].rid}

\* lines 259-267, 323-331, 373-382: except TimeoutError
TimeoutCleanup(t) ==
    /\ th[t].pc = "timeout"
    /\ pending' = TimeoutPending(t)
    /\ pending_index' = IF th[t].op = "index"
                        THEN pending_index \ {th[t].serial}
                        ELSE pending_index
    /\ th' = [th EXCEPT ![t] = Return(t, "timeout", HttpGatewayTimeout)]
    /\ calls' = EndCall(th[t].rid, "timeout")
    /\ UNCHANGED <<reqs, command_socket, stop_evt, sent, devices, db, listing,
                   lastStatusAt, now, nextId>>
    /\ UNCHANGED <<service_state, agVars>>

\* ------------------------------------------ BroadcastManager._listen_loop
Listening == command_socket = "open" /\ ~stop_evt /\ th["listen"].pc = "idle"

\* DeviceRegistry.update_from_status: the registry entry written
StatusEntry(assigned) ==
    [known |-> TRUE, ip |-> TRUE, index |-> assigned, last_seen |-> now]

\* lines 127-135: AGENT_STATUS from serial, reporting index `reported`
\* (0 when the agent has none) and the transition flag of its service_state
HandleStatus(serial, reported, transition) ==
    /\ Listening
    /\ LET assigned == EnsureDeviceIndex(db, serial)
           entry == StatusEntry(assigned)
       IN  /\ db' = EnsureDeviceIndexDb(db, serial)
           /\ devices' = [devices EXCEPT ![serial] = entry]
           /\ lastStatusAt' = [lastStatusAt EXCEPT ![serial] = now]
           /\ service_state' = [service_state EXCEPT ![serial] = transition]
           /\ IF assigned # reported
              THEN /\ nextId < MaxReq
                   /\ th' = [th EXCEPT !["listen"] =
                               IF entry.known /\ entry.ip
                               THEN [IdleThread EXCEPT
                                        !.pc = "idx_check", !.op = "index",
                                        !.serial = serial, !.index = assigned]
                               ELSE IdleThread]
              ELSE th' = [th EXCEPT !["listen"] = IdleThread]
    /\ UNCHANGED <<pending, reqs, pending_index, command_socket, stop_evt,
                   sent, calls, listing, now, nextId>>
    /\ UNCHANGED agVars

\* AGENT_STATUS of an agent at rest: service_state.transition is false
HandleAgentStatus(serial, reported) == HandleStatus(serial, reported, FALSE)

\* a terminal ack that leaves its entry in the table
AckPopKept(rid) == pending

\* the pending table after a terminal ack for request id rid
AckPop(rid) == pending \ {rid}

\* a terminal ack that resolves every entry of the table
AckResolveAll(rs, m) ==
    [r \in ReqIds |-> IF r \in pending
                      THEN PendingSet(rs[r], AckPayload(m)) ELSE rs[r]]

\* a terminal ack that resolves the request of its id whether or not the
\* table still holds it
AckResolveAny(rs, m) ==
    [r \in ReqIds |-> IF r = m.rid
                      THEN PendingSet(rs[r], AckPayload(m)) ELSE rs[r]]

\* the PendingRequest objects after a terminal ack m
AckResolve(rs, m) ==
    [r \in ReqIds |-> IF r = m.rid /\ r \in pending
                      THEN PendingSet(rs[r], AckPayload(m)) ELSE rs[r]]

\* a transition ack that resolves the entry it finds
AckUpdateResolves(rs, m, found) ==
    [r \in ReqIds |-> IF r = found
                      THEN PendingSet(rs[r], AckPayload(m)) ELSE rs[r]]

\* the PendingRequest objects after a transition ack m whose lookup found
\* the entry `found` (0: no entry)
AckUpdate(rs, m, found) ==
    [r \in ReqIds |-> IF r = found
                      THEN PendingUpdate(rs[r], AckPayload(m)) ELSE rs[r]]

ServiceAck(rid, serial, ok, transition) ==
    [type |-> "SERVICE_ACK", rid |-> rid, ok |-> ok, transition |-> transition,
     serial |-> serial, index |-> 0]
PowerAck(rid, serial, ok) ==
    [type |-> "POWER_ACK", rid |-> rid, ok |-> ok, transition |-> FALSE,
     serial |-> serial, index |-> 0]
IndexAck(rid, serial, ok, index) ==
    [type |-> "INDEX_ACK", rid |-> rid, ok |-> ok, transition |-> FALSE,
     serial |-> serial, index |-> index]

\* _handle_service_ack, lines 186-191: a transition ack, the lookup under
\* pending_lock
HandleServiceAckLookup(m) ==
    /\ Listening
    /\ m.type = "SERVICE_ACK" /\ m.transition
    /\ th' = [th EXCEPT !["listen"] =
                [IdleThread EXCEPT !.pc = "ack_update", !.msg = m,
                                   !.rid = IF m.rid \in pending
                                           THEN m.rid ELSE 0]]
    /\ UNCHANGED <<pending, reqs, pending_index, command_socket, stop_evt,
                   sent, calls, devices, db, listing, lastStatusAt, now,
                   nextId>>
    /\ UNCHANGED <<service_state, agVars>>

\* _handle_service_ack, lines 190-205: pending.update outside the lock, then
\* registry.update_services
HandleServiceAckUpdate ==
    /\ th["listen"].pc = "ack_update"
    /\ LET m == th["listen"].msg
       IN  /\ reqs' = AckUpdate(reqs, m, th["listen"].rid)
           /\ devices' = UpdateServices(devices, m.serial, now)
           /\ service_state' = UpdateServiceState(service_state, devices,
                                                  m.serial, m.transition)
    /\ th' = [th EXCEPT !["listen"] = IdleThread]
    /\ UNCHANGED <<pending, pending_index, command_socket, stop_evt, sent,
                   calls, db, listing, lastStatusAt, now, nextId>>
    /\ UNCHANGED agVars

\* _handle_service_ack, lines 192-205: a terminal ack
HandleServiceAckFinal(m) ==
    /\ Listening
    /\ m.type = "SERVICE_ACK" /\ ~m.transition
    /\ pending' = AckPop(m.rid)
    /\ reqs' = AckResolve(reqs, m)
    /\ devices' = UpdateServices(devices, m.serial, now)
    /\ service_state' = UpdateServiceState(service_state, devices, m.serial,
                                           m.transition)
    /\ UNCHANGED <<pending_index, command_socket, stop_evt, sent, th, calls,
                   db, listing, lastStatusAt, now, nextId>>
    /\ UNCHANGED agVars

\* lines 140-154: POWER_ACK
HandlePowerAck(m) ==
    /\ Listening
    /\ m.type = "POWER_ACK"
    /\ pending' = AckPop(m.rid)
    /\ reqs' = AckResolve(reqs, m)
    /\ UNCHANGED <<pending_index, command_socket, stop_evt, sent, th, calls,
                   devices, db, listing, lastStatusAt, now, nextId>>
    /\ UNCHANGED <<service_state, agVars>>

\* lines 156-173: INDEX_ACK
HandleIndexAck(m) ==
    /\ Listening
    /\ m.type = "INDEX_ACK"
    /\ pending' = AckPop(m.rid)
    /\ reqs' = AckResolve(reqs, m)
    /\ pending_index' = pending_index \ {m.serial}
    /\ devices' = UpdateIndex(devices, m.serial, m.index)
    /\ UNCHANGED <<command_socket, stop_evt, sent, th, calls, db, listing,
                   lastStatusAt, now, nextId>>
    /\ UNCHANGED <<service_state, agVars>>

\* the acks the network can deliver: any request id, in any order, repeated
ServiceAcks == {ServiceAck(r, s, ok, tr) :
                    r \in ReqIds, s \in Serials, ok \in BOOLEAN, tr \in BOOLEAN}
PowerAcks == {PowerAck(r, s, ok) : r \in ReqIds, s \in Serials, ok \in BOOLEAN}
IndexAcks == {IndexAck(r, s, ok, i) :
                    r \in ReqIds, s \in Serials, ok \in BOOLEAN,
                    i \in 0..MaxIndex}
TerminalAcks == {m \in ServiceAcks : ~m.transition} \cup PowerAcks \cup IndexAcks

HandleTerminalAck(m) ==
    \/ HandleServiceAckFinal(m)
    \/ HandlePowerAck(m)
    \/ HandleIndexAck(m)

\* ------------------------------------------------------- db.delete_device
SerialRank(s) == IF s = "s1" THEN 1 ELSE 2

\* db._resequence_device_indices: ORDER BY device_index, serial
Resequence(d) ==
    LET rows == {s \in Serials : d[s].exists}
        Before(a, b) ==
            \/ d[a].device_index < d[b].device_index
            \/ /\ d[a].device_index = d[b].device_index
               /\ SerialRank(a) < SerialRank(b)
    IN  [s \in Serials |->
            IF s \in rows
            THEN [d[s] EXCEPT !.device_index =
                    1 + Cardinality({r \in rows : Before(r, s)})]
            ELSE d[s]]

DeleteDeviceDb(d, serial) == Resequence([d EXCEPT ![serial] = NoRow])

\* routes.api_delete_device, lines 175-178: delete, then the registry snapshot
ApiDeleteDevice(serial) ==
    /\ th["http"].pc = "idle"
    /\ db' = DeleteDeviceDb(db, serial)
    /\ th' = [th EXCEPT !["http"] =
                [IdleThread EXCEPT
                    !.pc = "del_loop", !.loop = TRUE,
                    !.todo = {s \in Serials : ListDevicesResult[s] = "online"},
                    !.snap = [s \in Serials |-> devices[s].index]]]
    /\ UNCHANGED <<pending, reqs, pending_index, command_socket, stop_evt,
                   sent, calls, devices, listing, lastStatusAt, now, nextId>>
    /\ UNCHANGED <<service_state, agVars>>

\* routes.api_delete_device, lines 178-195: one iteration of the loop
ApiDeleteLoop ==
    /\ th["http"].pc = "del_loop"
    /\ IF th["http"].todo = {}
       THEN th' = [th EXCEPT !["http"] = IdleThread]
       ELSE \E s \in th["http"].todo :
              LET rest == [th["http"] EXCEPT !.todo = @ \ {s}]
              IN  IF db[s].exists /\ db[s].device_index # 0
                     /\ th["http"].snap[s] # db[s].device_index
                  THEN /\ nextId < MaxReq
                       /\ th' = [th EXCEPT !["http"] =
                                   EnterIndexUpdate("http", rest, s,
                                                    db[s].device_index)]
                  ELSE th' = [th EXCEPT !["http"] = rest]
    /\ UNCHANGED <<pending, reqs, pending_index, command_socket, stop_evt,
                   sent, calls, devices, db, listing, lastStatusAt, now,
                   nextId>>
    /\ UNCHANGED <<service_state, agVars>>

\* ------------------------------------------------------------ controller
RequestStep(t) ==
    \/ IndexCheck(t)
    \/ Register(t)
    \/ SendCommand(t)
    \/ WaitReturn(t)
    \/ WaitTimeout(t)
    \/ TimeoutCleanup(t)

\* ======================================================================
\* The agent: AppHandler (the process supervisor), jsonconfig (the persisted
\* config file) and AgentRuntime (the orchestrator).  Its threads are the
\* main thread (bootstrap, then the protocol handler of listen_and_reply),
\* the health monitor, and one worker per SET_SERVICE transition.
\* service_lock is held for the whole of _apply_active_service; the steps
\* of one call are the calls it makes that block (stop, spawn, file write).
\* ======================================================================

\* ---------------------------------------------------------------- bounds
MaxCmd == 2          \* SET_SERVICE commands the agent receives in one run
MaxPid == 2          \* child processes the operating system hands out

\* ------------------------------------------------------ program constants
NoPid == 0           \* _proc is None
NoRc == -1           \* _last_returncode is None
Unlocked == 0        \* service_lock is not held
ProgressClosing == 5
ProgressOpening == 80
ProgressDone == 100

Standby == "standby"         \* jsonconfig.STANDBY_SERVICE
RetCodes == {0, 1}           \* exit codes of a worker that exits by itself
CommandServices == Services \cup {"bogus"}   \* names a SET_SERVICE carries
\* the same with the name left out of the datagram: (service or "").strip()
CommandNames == CommandServices \cup {""}
Pids == 1..MaxPid
TransIds == 1..MaxCmd        \* one transition worker per SET_SERVICE
MonW == MaxCmd + 1           \* the omi-service-monitor thread
MainW == MaxCmd + 2          \* the main thread
Workers == 1..MainW


\* ------------------------------------------------------------- messages
\* self.service_error is None
NoError == [kind |-> "none", svc |-> "none", rc |-> NoRc]

\* the text of an exception raised inside _apply_active_service
ErrorText(kind, service) == [kind |-> kind, svc |-> service, rc |-> NoRc]

\* the message without the return code
CrashMessageNoRc(expected, rc) ==
    [kind |-> "crash", svc |-> expected, rc |-> NoRc]

\* lines 506-508: "<EXPECTED> ERROR (rc=<rc>)", or "<EXPECTED> ERROR"
CrashMessage(expected, rc) == [kind |-> "crash", svc |-> expected, rc |-> rc]

\* a SERVICE_ACK as send_ack builds it
Ack(ok, transition, stage, progress) ==
    [ok |-> ok, transition |-> transition, stage |-> stage,
     progress |-> progress]

AckClosing == Ack(TRUE, TRUE, "cerrando", ProgressClosing)
AckOpening == Ack(TRUE, TRUE, "abriendo", ProgressOpening)
AckCompleted == Ack(TRUE, FALSE, "completado", ProgressDone)
\* the error ack sent with ok=true
AckErrorOk == Ack(TRUE, FALSE, "error", ProgressDone)

AckError == Ack(FALSE, FALSE, "error", ProgressDone)

\* _set_service_transition that never lowers the transition flag
TransitionStuck(active, stage, progress) ==
    [transition |-> TRUE, stage |-> stage, progress |-> progress]

\* _set_service_transition(active, stage, progress)
Transition(active, stage, progress) ==
    [transition |-> active, stage |-> stage, progress |-> progress]

\* ---------------------------------------------------------------- state
\* rollback: whether this call of _apply_active_service has run the
\* start_service(previous) of line 583
IdleWorker == [pc |-> "idle", service |-> "none", previous |-> "none",
               pre |-> "none", err |-> NoError, fallback |-> FALSE,
               rollback |-> FALSE]

NoPoll == [expected |-> "none", running |-> FALSE, rc |-> NoRc]

\* identity.index is None (jsonconfig._default_structure)
NoIndex == 0
\* the indexes a SET_INDEX carries
AgentIndexes == {1, 2}
\* no config dict read yet
NoData == [svc |-> "none", index |-> NoIndex, ok |-> FALSE]
\* no INDEX_ACK sent yet
NoIndexAck == [ok |-> FALSE, index |-> NoIndex]

InitAgent ==
    /\ proc = NoPid
    /\ name = "none"
    /\ last_error = "none"
    /\ last_returncode = NoRc
    /\ alive = {}
    /\ proc_rc = NoRc
    /\ nextPid = 0
    /\ disk = "ok"
    /\ file = Standby
    /\ cfg = "none"
    /\ service_status = Transition(FALSE, "none", 0)
    /\ service_error = NoError
    /\ service_lock = Unlocked
    /\ wk = [w \in Workers |-> IdleWorker]
    /\ mon = NoPoll
    /\ acks = [r \in TransIds |-> <<>>]
    /\ nextCmd = 0
    /\ file_index = NoIndex
    /\ cfg_index = NoIndex
    /\ data = [w \in Workers |-> NoData]
    /\ index_ack = NoIndexAck

\* ------------------------------------------------------------ AppHandler
\* _is_running(): the value it returns
IsRunning == proc # NoPid /\ proc \in alive

\* _is_running(): what it leaves in _last_returncode
PolledReturncode ==
    IF proc = NoPid THEN last_returncode
    ELSE IF proc \in alive THEN NoRc ELSE proc_rc

\* _is_running(): what it leaves in _last_error
PolledError ==
    IF proc # NoPid /\ proc \notin alive /\ last_error = "none"
    THEN "return code" ELSE last_error

\* the supervisor's globals and the processes it spawned, as one value
Sup == [proc |-> proc, name |-> name, last_error |-> last_error,
        last_returncode |-> last_returncode, alive |-> alive,
        proc_rc |-> proc_rc, nextPid |-> nextPid]

SupIs(s) ==
    /\ proc' = s.proc
    /\ name' = s.name
    /\ last_error' = s.last_error
    /\ last_returncode' = s.last_returncode
    /\ alive' = s.alive
    /\ proc_rc' = s.proc_rc
    /\ nextPid' = s.nextPid

Running(s) == s.proc # NoPid /\ s.proc \in s.alive

\* _is_running() on the supervisor state s
Poll(s) ==
    IF s.proc = NoPid THEN s
    ELSE IF s.proc \in s.alive
    THEN [s EXCEPT !.last_returncode = NoRc]
    ELSE [s EXCEPT !.last_returncode = s.proc_rc,
                   !.last_error = IF s.last_error = "none"
                                  THEN "return code" ELSE s.last_error]

\* how a terminate()/wait/kill() sequence can end: the child is gone and
\* poll() gave rc, or one of the calls raised and the child is still there
StopOutcomes ==
    {[raised |-> FALSE, rc |-> c] : c \in RetCodes}
        \cup {[raised |-> TRUE, rc |-> NoRc]}

\* stop_service() with an except branch that keeps the handle
StopServiceKeepsHandle(s, o) ==
    IF ~Running(s)
    THEN [s EXCEPT !.proc = NoPid, !.name = "none", !.last_error = "none",
                   !.last_returncode = NoRc]
    ELSE IF ~o.raised
    THEN [s EXCEPT !.alive = s.alive \ {s.proc}, !.proc = NoPid,
                   !.name = "none", !.last_error = "none",
                   !.last_returncode = o.rc]
    ELSE [s EXCEPT !.last_error = "terminate", !.last_returncode = NoRc]

\* stop_service()
StopService(s, o) ==
    IF ~Running(s)
    THEN [s EXCEPT !.proc = NoPid, !.name = "none", !.last_error = "none",
                   !.last_returncode = NoRc]
    ELSE IF ~o.raised
    THEN [s EXCEPT !.alive = s.alive \ {s.proc}, !.proc = NoPid,
                   !.name = "none", !.last_error = "none",
                   !.last_returncode = o.rc]
    ELSE [s EXCEPT !.proc = NoPid, !.name = "none",
                   !.last_error = "terminate", !.last_returncode = NoRc]

\* start_service(STANDBY_SERVICE), lines 205-216
StartStandby(s, o) ==
    LET t == IF Running(s) THEN StopService(s, o) ELSE Poll(s)
    IN  [t EXCEPT !.last_error = "none", !.last_returncode = NoRc]

\* start_service(service), lines 224-230: TRUE when it returns at once
\* because the service already runs
AlreadyRunning(s, service) == Running(s) /\ s.name = service

\* start_service(service), lines 229-230: the stop of a different service
StopOther(s, o) == IF Running(s) THEN StopService(s, o) ELSE Poll(s)

\* how lines 232-269 can end: "ok"; "failed": Popen raised; "orphan": Popen
\* returned and _start_stream_threads raised, so that the except branch
\* dropped the handle of a child that runs
SpawnOutcomes == {"ok", "failed", "orphan"}

\* lines 232-269 with an except branch that leaves _last_error as it was
SpawnSilent(s, service, o) ==
    IF o = "ok"
    THEN [s EXCEPT !.proc = s.nextPid + 1, !.nextPid = s.nextPid + 1,
                   !.alive = s.alive \cup {s.nextPid + 1},
                   !.name = service, !.last_error = "none",
                   !.last_returncode = NoRc, !.proc_rc = NoRc]
    ELSE IF o = "orphan"
    THEN [s EXCEPT !.proc = NoPid, !.nextPid = s.nextPid + 1,
                   !.alive = s.alive \cup {s.nextPid + 1},
                   !.name = "none", !.last_returncode = NoRc]
    ELSE [s EXCEPT !.proc = NoPid, !.name = "none", !.last_returncode = NoRc]

\* start_service(service), lines 232-269
Spawn(s, service, o) ==
    IF o = "ok"
    THEN [s EXCEPT !.proc = s.nextPid + 1, !.nextPid = s.nextPid + 1,
                   !.alive = s.alive \cup {s.nextPid + 1},
                   !.name = service, !.last_error = "none",
                   !.last_returncode = NoRc, !.proc_rc = NoRc]
    ELSE IF o = "orphan"
    THEN [s EXCEPT !.proc = NoPid, !.nextPid = s.nextPid + 1,
                   !.alive = s.alive \cup {s.nextPid + 1},
                   !.name = "none", !.last_error = "spawn",
                   !.last_returncode = NoRc]
    ELSE [s EXCEPT !.proc = NoPid, !.name = "none", !.last_error = "spawn",
                   !.last_returncode = NoRc]

\* the outcomes the operating system allows in s
SpawnAllowed(s, o) == o = "failed" \/ s.nextPid < MaxPid

\* start_service(service) as one call (the rollback of line 583)
StartService(s, service, so, po) ==
    IF service = Standby THEN StartStandby(s, so)
    ELSE IF AlreadyRunning(s, service) THEN Poll(s)
    ELSE Spawn(StopOther(s, so), service, po)

\* what stop_service() returns, lines 274-310: False from the except branch
StopReturn(s, o) == ~(Running(s) /\ o.raised)

\* what start_service(service) returns, lines 205-269: the result of the
\* stop_service() of lines 207 and 230 is not looked at
StartReturn(s, service, so, po) ==
    IF service = Standby THEN TRUE
    ELSE IF AlreadyRunning(s, service) THEN TRUE
    ELSE po = "ok"

\* ------------------------------------------------------------ jsonconfig
\* set_active_service(path, service): what the file can hold afterwards.
\* _write_json opens the file for writing in place: a write that fails
\* after the open leaves it truncated, one whose open fails leaves it as
\* it was
FileAfterWrite(service) ==
    IF disk = "ok" THEN {service} ELSE {"truncated", file}

\* ------------------------------------------- the operating system
Crash(p, rc) ==
    /\ p \in alive
    /\ alive' = alive \ {p}
    /\ proc_rc' = IF p = proc THEN rc ELSE proc_rc
    /\ UNCHANGED <<proc, name, last_error, last_returncode, nextPid, disk,
                   file, cfg, service_status, service_error, service_lock,
                   wk, mon, acks, nextCmd>>
    /\ UNCHANGED <<ctlVars, jcVars>>
    /\ UNCHANGED idxVars

DiskFill ==
    /\ disk = "ok"
    /\ wk[MainW].pc = "listen"
    /\ disk' = "full"
    /\ UNCHANGED <<proc, name, last_error, last_returncode, alive, proc_rc,
                   nextPid, file, cfg, service_status, service_error,
                   service_lock, wk, mon, acks, nextCmd>>
    /\ UNCHANGED <<ctlVars, jcVars>>
    /\ UNCHANGED idxVars

DiskFree ==
    /\ disk = "full"
    /\ disk' = "ok"
    /\ UNCHANGED <<proc, name, last_error, last_returncode, alive, proc_rc,
                   nextPid, file, cfg, service_status, service_error,
                   service_lock, wk, mon, acks, nextCmd>>
    /\ UNCHANGED <<ctlVars, jcVars>>
    /\ UNCHANGED idxVars

\* ---------------------------------------- AgentRuntime._apply_active_service
\* whether the caller passes a config_name whose download raises (lines 559,
\* 574): bootstrap passes none, and standby never downloads
Downloads(w, service) ==
    IF w = MainW \/ service = Standby THEN {"none"} ELSE {"none", "failed"}

\* the worker w after its _apply_active_service raised
Raised(w, kind) ==
    [wk EXCEPT ![w].pc = "failed",
               ![w].err = ErrorText(kind, wk[w].service)]

\* lines 544-550: the two ValueErrors, raised before the lock is taken
ApplyInvalid(w) ==
    /\ wk[w].pc = "apply"
    /\ wk[w].service \notin Services
    /\ wk' = Raised(w, IF wk[w].service = "" THEN "empty_service"
                        ELSE "unknown_service")
    /\ UNCHANGED <<proc, name, last_error, last_returncode, alive, proc_rc,
                   nextPid, disk, file, cfg, service_status, service_error,
                   service_lock, mon, acks, nextCmd>>
    /\ UNCHANGED <<ctlVars, jcVars>>
    /\ UNCHANGED idxVars

\* lines 552-564: the service is the expected one and runs; nothing is
\* stopped or started, the file is written again
ApplySame(w) ==
    /\ wk[w].pc = "apply"
    /\ wk[w].service \in Services
    /\ service_lock = Unlocked
    /\ wk[w].service = cfg /\ AlreadyRunning(Sup, wk[w].service)
    /\ SupIs(Poll(Sup))
    /\ \E dl \in Downloads(w, wk[w].service) :
          IF dl = "failed"
          THEN /\ wk' = Raised(w, "download_failed")
               /\ UNCHANGED <<file, cfg>>
          ELSE /\ file' \in FileAfterWrite(wk[w].service)
               /\ IF disk = "ok"
                  THEN /\ cfg' = wk[w].service
                       /\ wk' = [wk EXCEPT ![w].pc = "applied",
                                           ![w].previous = cfg]
                  ELSE /\ cfg' = cfg
                       /\ wk' = Raised(w, "persist_failed")
    /\ cfg_index' = IF wk'[w].pc = "applied" THEN file_index ELSE cfg_index
    /\ UNCHANGED <<disk, service_status, service_error, service_lock, mon,
                   acks, nextCmd, file_index, data, index_ack>>
    /\ UNCHANGED <<ctlVars, jcVars>>

\* lines 552-557, 566-567: standby; start_service(STANDBY_SERVICE) stops
\* what runs
ApplyStandby(w) ==
    /\ wk[w].pc = "apply"
    /\ wk[w].service = Standby
    /\ service_lock = Unlocked
    /\ \E o \in StopOutcomes : SupIs(StartStandby(Sup, o))
    /\ service_lock' = w
    /\ wk' = [wk EXCEPT ![w].pc = "persist", ![w].previous = cfg]
    /\ UNCHANGED <<disk, file, cfg, service_status, service_error, mon, acks,
                   nextCmd>>
    /\ UNCHANGED <<ctlVars, jcVars>>
    /\ UNCHANGED idxVars

\* lines 552-557, 574-577 and start_service lines 218-230: another service;
\* the download, then the stop of what runs
ApplyStop(w) ==
    /\ wk[w].pc = "apply"
    /\ wk[w].service \in Services \ {Standby}
    /\ service_lock = Unlocked
    /\ ~(wk[w].service = cfg /\ AlreadyRunning(Sup, wk[w].service))
    /\ \E dl \in Downloads(w, wk[w].service) :
          IF dl = "failed"
          THEN /\ SupIs(Poll(Sup))
               /\ wk' = Raised(w, "download_failed")
               /\ service_lock' = service_lock
          ELSE /\ service_lock' = w
               /\ IF AlreadyRunning(Sup, wk[w].service)
                  THEN /\ SupIs(Poll(Sup))
                       /\ wk' = [wk EXCEPT ![w].pc = "persist",
                                           ![w].previous = cfg]
                  ELSE /\ \E o \in StopOutcomes : SupIs(StopOther(Sup, o))
                       /\ wk' = [wk EXCEPT ![w].pc = "spawn",
                                           ![w].previous = cfg]
    /\ UNCHANGED <<disk, file, cfg, service_status, service_error, mon, acks,
                   nextCmd>>
    /\ UNCHANGED <<ctlVars, jcVars>>
    /\ UNCHANGED idxVars

\* start_service lines 232-269 and runtime.py lines 577-578
ApplySpawn(w) ==
    /\ wk[w].pc = "spawn"
    /\ \E o \in SpawnOutcomes :
          /\ SpawnAllowed(Sup, o)
          /\ SupIs(Spawn(Sup, wk[w].service, o))
          /\ IF o = "ok"
             THEN /\ wk' = [wk EXCEPT ![w].pc = "persist"]
                  /\ service_lock' = service_lock
             ELSE /\ wk' = Raised(w, "start_failed")
                  /\ service_lock' = Unlocked
    /\ UNCHANGED <<disk, file, cfg, service_status, service_error, mon, acks,
                   nextCmd>>
    /\ UNCHANGED <<ctlVars, jcVars>>
    /\ UNCHANGED idxVars

\* the supervisor after the except branch of lines 580-584
Rollback(w, so, po) ==
    IF wk[w].service = Standby THEN Sup
    ELSE StartService(Sup, wk[w].previous, so, po)

\* lines 568-572 and 580-589: set_active_service, then _set_config,
\* _update_service_status and _clear_service_error; or the except branch
ApplyPersist(w) ==
    /\ wk[w].pc = "persist"
    /\ file' \in FileAfterWrite(wk[w].service)
    /\ service_lock' = Unlocked
    /\ IF disk = "ok"
       THEN /\ cfg' = wk[w].service
            /\ service_error' = NoError
            /\ SupIs(Poll(Sup))
            /\ wk' = [wk EXCEPT ![w].pc = "applied"]
       ELSE /\ cfg' = cfg
            /\ service_error' = service_error
            /\ \E so \in StopOutcomes, po \in SpawnOutcomes :
                  /\ SpawnAllowed(Sup, po)
                  /\ SupIs(Rollback(w, so, po))
            /\ wk' = [Raised(w, "persist_failed") EXCEPT
                         ![w].rollback = wk[w].service # Standby]
    /\ cfg_index' = IF disk = "ok" THEN file_index ELSE cfg_index
    /\ UNCHANGED <<disk, service_status, mon, acks, nextCmd, file_index,
                   data, index_ack>>
    /\ UNCHANGED <<ctlVars, jcVars>>

\* set_active_service, jsonconfig.py line 210: read_config; the thread
\* holds the dict until the _write_json of line 225
PersistRead(w) ==
    /\ wk[w].pc = "persist"
    /\ data' = [data EXCEPT ![w] = [svc |-> file, index |-> file_index,
                                    ok |-> TRUE]]
    /\ wk' = [wk EXCEPT ![w].pc = "write"]
    /\ UNCHANGED <<proc, name, last_error, last_returncode, alive, proc_rc,
                   nextPid, disk, file, cfg, service_status, service_error,
                   service_lock, mon, acks, nextCmd, file_index, cfg_index,
                   index_ack>>
    /\ UNCHANGED <<ctlVars, jcVars>>

\* set_active_service, jsonconfig.py lines 216-226: the dict read before is
\* written back with the service enabled; then runtime.py lines 568-572
\* and 580-589 as in ApplyPersist
PersistWrite(w) ==
    /\ wk[w].pc = "write"
    /\ file' \in FileAfterWrite(wk[w].service)
    /\ service_lock' = Unlocked
    /\ IF disk = "ok"
       THEN /\ file_index' = data[w].index
            /\ cfg' = wk[w].service
            /\ cfg_index' = data[w].index
            /\ service_error' = NoError
            /\ SupIs(Poll(Sup))
            /\ wk' = [wk EXCEPT ![w].pc = "applied"]
       ELSE /\ UNCHANGED <<file_index, cfg, cfg_index, service_error>>
            /\ \E so \in StopOutcomes, po \in SpawnOutcomes :
                  /\ SpawnAllowed(Sup, po)
                  /\ SupIs(Rollback(w, so, po))
            /\ wk' = [Raised(w, "persist_failed") EXCEPT
                         ![w].rollback = wk[w].service # Standby]
    /\ data' = [data EXCEPT ![w] = NoData]
    /\ UNCHANGED <<disk, service_status, mon, acks, nextCmd, index_ack>>
    /\ UNCHANGED <<ctlVars, jcVars>>

ApplyStep(w) ==
    \/ ApplyInvalid(w)
    \/ ApplySame(w)
    \/ ApplyStandby(w)
    \/ ApplyStop(w)
    \/ ApplySpawn(w)
    \/ ApplyPersist(w)

\* ---------------------------------- AgentRuntime._handle_service_command
\* lines 591-650, in the protocol handler: the "cerrando" ack and the start
\* of the transition worker
HandleSetService(service) ==
    /\ wk[MainW].pc = "listen"
    /\ nextCmd < MaxCmd
    /\ service_lock = Unlocked
    /\ nextCmd' = nextCmd + 1
    /\ service_status' = Transition(TRUE, "cerrando", ProgressClosing)
    /\ acks' = [acks EXCEPT ![nextCmd + 1] = <<AckClosing>>]
    /\ wk' = [wk EXCEPT ![nextCmd + 1] =
                 [IdleWorker EXCEPT !.pc = "apply", !.service = service,
                                    !.pre = file]]
    /\ UNCHANGED <<proc, name, last_error, last_returncode, alive, proc_rc,
                   nextPid, disk, file, cfg, service_error, service_lock,
                   mon>>
    /\ UNCHANGED <<ctlVars, jcVars>>
    /\ UNCHANGED idxVars

\* _update_service_status line 406, _set_service_transition line 418 and
\* _get_service_state line 414: the protocol handler takes service_lock
\* before it can answer, and gets it only when no other thread holds it
HandlerReady == service_lock = Unlocked

\* listen_and_reply lines 166-177: DISCOVER; _build_status_payload calls
\* _update_service_status, which polls the supervisor and then takes
\* service_lock to fill the status it sends
HandleDiscover ==
    /\ wk[MainW].pc = "listen"
    /\ HandlerReady
    /\ SupIs(Poll(Sup))
    /\ UNCHANGED <<disk, file, cfg, service_status, service_error,
                   service_lock, wk, mon, acks, nextCmd>>
    /\ UNCHANGED <<ctlVars, jcVars>>
    /\ UNCHANGED idxVars

\* jsonconfig.set_device_index(path, index): the file is read, identity.index
\* is set and the file is written back; the dict written is returned
SetDeviceIndex(index) == [svc |-> file, index |-> index, ok |-> TRUE]

\* _handle_index_command lines 698-710: set_device_index; when the datagram
\* has no index (NoIndex) or set_device_index raises, lines 715-722: the
\* INDEX_ACK with ok=false
HandleSetIndex(index) ==
    /\ wk[MainW].pc = "listen"
    /\ IF index # NoIndex /\ disk = "ok"
       THEN /\ file_index' = SetDeviceIndex(index).index
            /\ data' = [data EXCEPT ![MainW] = SetDeviceIndex(index)]
            /\ wk' = [wk EXCEPT ![MainW].pc = "index_cfg"]
            /\ index_ack' = index_ack
       ELSE /\ index_ack' = [ok |-> FALSE, index |-> index]
            /\ UNCHANGED <<file_index, data, wk>>
    /\ UNCHANGED <<proc, name, last_error, last_returncode, alive, proc_rc,
                   nextPid, disk, file, cfg, service_status, service_error,
                   service_lock, mon, acks, nextCmd, cfg_index>>
    /\ UNCHANGED <<ctlVars, jcVars>>

\* a handler that goes on without installing the dict it got back
IndexSetConfigKept ==
    /\ wk[MainW].pc = "index_cfg"
    /\ wk' = [wk EXCEPT ![MainW].pc = "index_status"]
    /\ UNCHANGED <<proc, name, last_error, last_returncode, alive, proc_rc,
                   nextPid, disk, file, cfg, service_status, service_error,
                   service_lock, mon, acks, nextCmd, file_index, data,
                   index_ack, cfg_index>>
    /\ UNCHANGED <<ctlVars, jcVars>>

\* _handle_index_command line 711: _set_config(cfg)
IndexSetConfig ==
    /\ wk[MainW].pc = "index_cfg"
    /\ cfg' = data[MainW].svc
    /\ cfg_index' = data[MainW].index
    /\ wk' = [wk EXCEPT ![MainW].pc = "index_status"]
    /\ UNCHANGED <<proc, name, last_error, last_returncode, alive, proc_rc,
                   nextPid, disk, file, service_status, service_error,
                   service_lock, mon, acks, nextCmd, file_index, data,
                   index_ack>>
    /\ UNCHANGED <<ctlVars, jcVars>>

\* _handle_index_command lines 712-722: _update_service_status, which
\* waits for service_lock, and the INDEX_ACK with ok=true
SendIndexAck ==
    /\ wk[MainW].pc = "index_status"
    /\ HandlerReady
    /\ SupIs(Poll(Sup))
    /\ index_ack' = [ok |-> TRUE, index |-> data[MainW].index]
    /\ data' = [data EXCEPT ![MainW] = NoData]
    /\ wk' = [wk EXCEPT ![MainW].pc = "listen"]
    /\ UNCHANGED <<disk, file, cfg, service_status, service_error,
                   service_lock, mon, acks, nextCmd, file_index, cfg_index>>
    /\ UNCHANGED <<ctlVars, jcVars>>

IndexStep ==
    \/ \E index \in AgentIndexes : HandleSetIndex(index)
    \/ IndexSetConfig
    \/ SendIndexAck

\* run_transition lines 630-632
SendOpening(r) ==
    /\ wk[r].pc = "applied"
    /\ service_lock = Unlocked
    /\ service_status' = Transition(TRUE, "abriendo", ProgressOpening)
    /\ acks' = [acks EXCEPT ![r] = Append(@, AckOpening)]
    /\ wk' = [wk EXCEPT ![r] = [IdleWorker EXCEPT !.pc = "opened",
                                                  !.service = wk[r].service]]
    /\ UNCHANGED <<proc, name, last_error, last_returncode, alive, proc_rc,
                   nextPid, disk, file, cfg, service_error, service_lock,
                   mon, nextCmd>>
    /\ UNCHANGED <<ctlVars, jcVars>>
    /\ UNCHANGED idxVars

\* run_transition lines 634-637
SendCompleted(r) ==
    /\ wk[r].pc = "opened"
    /\ service_lock = Unlocked
    /\ service_status' = Transition(FALSE, "completado", ProgressDone)
    /\ acks' = [acks EXCEPT ![r] = Append(@, AckCompleted)]
    /\ wk' = [wk EXCEPT ![r] = [IdleWorker EXCEPT !.pc = "done"]]
    /\ UNCHANGED <<proc, name, last_error, last_returncode, alive, proc_rc,
                   nextPid, disk, file, cfg, service_error, service_lock,
                   mon, nextCmd>>
    /\ UNCHANGED <<ctlVars, jcVars>>
    /\ UNCHANGED idxVars

\* run_transition lines 638-644
SendError(r) ==
    /\ wk[r].pc = "failed"
    /\ service_lock = Unlocked
    /\ service_error' = wk[r].err
    /\ service_status' = Transition(FALSE, "error", ProgressDone)
    /\ SupIs(Poll(Sup))
    /\ acks' = [acks EXCEPT ![r] = Append(@, AckError)]
    /\ wk' = [wk EXCEPT ![r] = [IdleWorker EXCEPT !.pc = "done"]]
    /\ UNCHANGED <<disk, file, cfg, service_lock, mon, nextCmd>>
    /\ UNCHANGED <<ctlVars, jcVars>>
    /\ UNCHANGED idxVars

TransitionStep(r) ==
    \/ ApplyStep(r)
    \/ SendOpening(r)
    \/ SendCompleted(r)
    \/ SendError(r)

\* the transition worker with the read and the write of set_active_service
\* as the two steps they are
TransitionStepFile(r) ==
    \/ ApplyInvalid(r)
    \/ ApplySame(r)
    \/ ApplyStandby(r)
    \/ ApplyStop(r)
    \/ ApplySpawn(r)
    \/ PersistRead(r)
    \/ PersistWrite(r)
    \/ SendOpening(r)
    \/ SendCompleted(r)
    \/ SendError(r)

\* ------------------------------------------------- AgentRuntime.bootstrap
\* lines 107-128: ensure_config reads the file, whose enabled service is
\* whatever the last run left there
Bootstrap(initial) ==
    /\ wk[MainW].pc = "idle"
    /\ file' = initial
    /\ cfg' = initial
    /\ wk' = [wk EXCEPT ![MainW].pc = "apply", ![MainW].service = initial,
                        ![MainW].pre = initial]
    /\ cfg_index' = file_index
    /\ UNCHANGED <<proc, name, last_error, last_returncode, alive, proc_rc,
                   nextPid, disk, service_status, service_error,
                   service_lock, mon, acks, nextCmd, file_index, data,
                   index_ack>>
    /\ UNCHANGED <<ctlVars, jcVars>>

\* lines 129-137 and 139-141: the initial service runs; listen_and_reply
\* starts the monitor thread
BootDone ==
    /\ wk[MainW].pc = "applied"
    /\ wk' = [wk EXCEPT ![MainW] = [IdleWorker EXCEPT !.pc = "listen"],
                        ![MonW].pc = "read"]
    /\ UNCHANGED <<proc, name, last_error, last_returncode, alive, proc_rc,
                   nextPid, disk, file, cfg, service_status, service_error,
                   service_lock, mon, acks, nextCmd>>
    /\ UNCHANGED <<ctlVars, jcVars>>
    /\ UNCHANGED idxVars

\* lines 132-133: _set_service_error("Inicio fallido: ...")
BootFailed ==
    /\ wk[MainW].pc = "failed"
    /\ service_error' = wk[MainW].err
    /\ service_status' = Transition(FALSE, "error", ProgressDone)
    /\ SupIs(Poll(Sup))
    /\ wk' = [wk EXCEPT ![MainW] = [IdleWorker EXCEPT !.pc = "listen"],
                        ![MonW].pc = "read"]
    /\ UNCHANGED <<disk, file, cfg, service_lock, mon, acks, nextCmd>>
    /\ UNCHANGED <<ctlVars, jcVars>>
    /\ UNCHANGED idxVars

BootStep ==
    \/ \E initial \in Services : Bootstrap(initial)
    \/ ApplyStep(MainW)
    \/ BootDone
    \/ BootFailed

\* -------------------------------------- AgentRuntime._service_monitor_loop
\* the condition with the running flag taken the wrong way round
UnhealthyInverted(expected, running) == expected # Standby /\ running

\* the unhealthy condition of line 505, on the values the poll read
Unhealthy(expected, running) == expected # Standby /\ ~running

\* lines 500-502: the reads of the poll; none of them takes service_lock
MonitorRead ==
    /\ wk[MonW].pc = "read"
    /\ mon' = [expected |-> cfg, running |-> IsRunning,
               rc |-> PolledReturncode]
    /\ SupIs(Poll(Sup))
    /\ wk' = [wk EXCEPT ![MonW].pc = "decide"]
    /\ UNCHANGED <<disk, file, cfg, service_status, service_error,
                   service_lock, acks, nextCmd>>
    /\ UNCHANGED <<ctlVars, jcVars>>
    /\ UNCHANGED idxVars

\* lines 503-510 and 521-522: _update_service_status waits for
\* service_lock; then the error is recorded, or cleared
MonitorDecide ==
    /\ wk[MonW].pc = "decide"
    /\ service_lock = Unlocked
    /\ IF Unhealthy(mon.expected, mon.running)
       THEN /\ service_error' = CrashMessage(mon.expected, mon.rc)
            /\ service_status' = Transition(FALSE, "error", ProgressDone)
            /\ SupIs(Poll(Sup))
            /\ wk' = [wk EXCEPT ![MonW] =
                         [IdleWorker EXCEPT !.pc = "apply",
                                            !.service = mon.expected]]
       ELSE /\ IF mon.running /\ service_error # NoError
               THEN /\ service_error' = NoError
                    /\ SupIs(Poll(Sup))
               ELSE UNCHANGED <<service_error, proc, name, last_error,
                                last_returncode, alive, proc_rc, nextPid>>
            /\ wk' = [wk EXCEPT ![MonW].pc = "read"]
            /\ UNCHANGED service_status
    /\ mon' = IF Unhealthy(mon.expected, mon.running) THEN mon ELSE NoPoll
    /\ UNCHANGED <<disk, file, cfg, service_lock, acks, nextCmd>>
    /\ UNCHANGED <<ctlVars, jcVars>>
    /\ UNCHANGED idxVars

\* line 513: the relaunch, or the fallback to standby, returned
MonitorApplied ==
    /\ wk[MonW].pc = "applied"
    /\ wk' = [wk EXCEPT ![MonW] = [IdleWorker EXCEPT !.pc = "read"]]
    /\ mon' = NoPoll
    /\ UNCHANGED <<proc, name, last_error, last_returncode, alive, proc_rc,
                   nextPid, disk, file, cfg, service_status, service_error,
                   service_lock, acks, nextCmd>>
    /\ UNCHANGED <<ctlVars, jcVars>>
    /\ UNCHANGED idxVars

\* lines 514-519: the relaunch raised: fall back to standby; the fallback
\* raised: log it
MonitorFailed ==
    /\ wk[MonW].pc = "failed"
    /\ IF wk[MonW].fallback
       THEN /\ wk' = [wk EXCEPT ![MonW] = [IdleWorker EXCEPT !.pc = "read"]]
            /\ mon' = NoPoll
       ELSE /\ wk' = [wk EXCEPT ![MonW] =
                         [IdleWorker EXCEPT !.pc = "apply",
                                            !.service = Standby,
                                            !.fallback = TRUE]]
            /\ mon' = mon
    /\ UNCHANGED <<proc, name, last_error, last_returncode, alive, proc_rc,
                   nextPid, disk, file, cfg, service_status, service_error,
                   service_lock, acks, nextCmd>>
    /\ UNCHANGED <<ctlVars, jcVars>>
    /\ UNCHANGED idxVars

MonitorStep ==
    \/ MonitorRead
    \/ MonitorDecide
    \/ ApplyStep(MonW)
    \/ MonitorApplied
    \/ MonitorFailed

\* ------------------------------------------------------------- jsonconfig
\* discover_services(): the ids of the manifest, standby first
Catalog == <<Standby, "MIDI", "OSC", "OSCnum">>
CatalogNames == {Catalog[i] : i \in DOMAIN Catalog}
\* service names a structure.json or a caller can hold: the catalog's and one
\* an earlier catalog had
ConfigNames == CatalogNames \cup {"legacy"}

EntryNames(services) == {services[i].name : i \in DOMAIN services}

\* the file does not parse (truncated) or is not there
Unreadable == [readable |-> FALSE, services |-> <<>>]

Readable(services) == [readable |-> TRUE, services |-> services]

\* the services list with `active` as its enabled entry
CatalogWith(active) ==
    [i \in DOMAIN Catalog |-> [name |-> Catalog[i],
                               enabled |-> Catalog[i] = active]]

\* _default_structure, line 108
DefaultServices == CatalogWith(Standby)

\* _sync_services, lines 135-140: by_name keeps the last flag of a name, in
\* the order the names first appear; active is the first name whose flag is
\* set
Active(services) ==
    LET At(n) == {i \in DOMAIN services : services[i].name = n}
        First(n) == CHOOSE i \in At(n) : \A j \in At(n) : i <= j
        Last(n) == CHOOSE i \in At(n) : \A j \in At(n) : j <= i
        on == {n \in EntryNames(services) : services[Last(n)].enabled}
    IN  IF on = {} THEN "none"
        ELSE CHOOSE n \in on : \A m \in on : First(n) <= First(m)

\* _sync_services, lines 141-148: the list it leaves in data["services"]
SyncServices(services) ==
    LET active == IF Active(services) \in CatalogNames
                  THEN Active(services) ELSE Standby
    IN  CatalogWith(active)

\* set_active_service, lines 217-224: the flags after the loop, and standby
\* enabled when the loop enabled nothing
SetEnabled(services, n) ==
    LET flagged == [i \in DOMAIN services |->
                      [services[i] EXCEPT !.enabled = (services[i].name = n)]]
        standbys == {i \in DOMAIN flagged : flagged[i].name = Standby}
        first == CHOOSE i \in standbys : \A j \in standbys : i <= j
    IN  IF \E i \in DOMAIN flagged : flagged[i].enabled \/ standbys = {}
        THEN flagged
        ELSE [flagged EXCEPT ![first].enabled = TRUE]

\* _write_json, lines 121-124, on the file st: written, or the write raised
\* after open("w") truncated the file, or open itself raised
WriteJson(st, services) ==
    {[structure |-> Readable(services), outcome |-> "ok"],
     [structure |-> Unreadable, outcome |-> "OSError"],
     [structure |-> st, outcome |-> "OSError"]}

\* ensure_config, lines 152-197 (same serial): the file and how the call ends
EnsureConfigResults(st) ==
    IF ~st.readable THEN WriteJson(st, DefaultServices)
    ELSE IF SyncServices(st.services) # st.services
    THEN WriteJson(st, SyncServices(st.services))
    ELSE {[structure |-> st, outcome |-> "ok"]}

\* read_config, lines 200-205
ReadConfigResults(st) ==
    IF st.readable THEN {[structure |-> st, outcome |-> "ok"]}
    ELSE EnsureConfigResults(st)

\* set_active_service(path, n), lines 208-226
SetActiveServiceResults(st, n) ==
    UNION {IF r.outcome # "ok" THEN {r}
           ELSE LET read == r.structure.services
                    services == IF n \in EntryNames(read) THEN read
                                ELSE SyncServices(read)
                IN  IF n \notin EntryNames(services)
                    THEN {[structure |-> r.structure, outcome |-> "ValueError"]}
                    ELSE WriteJson(r.structure, SetEnabled(services, n))
           : r \in ReadConfigResults(st)}

\* a call into jsonconfig: the function, the service name it was given and
\* how it ended
Call(op, n, result) == [op |-> op, name |-> n, outcome |-> result]

\* no process of the agent is running
Down == Call("none", "none", "down")

InitJsonconfig ==
    /\ structure = Readable(DefaultServices)
    /\ jc_call = Down

\* AgentRuntime.bootstrap, line 114: ensure_config when the process starts;
\* a bootstrap that raises ends the process
EnsureConfig ==
    /\ \E r \in EnsureConfigResults(structure) :
          /\ structure' = r.structure
          /\ jc_call' = IF r.outcome = "ok"
                        THEN Call("ensure_config", "none", "ok") ELSE Down
    /\ UNCHANGED <<proc, name, last_error, last_returncode, alive, proc_rc,
                   nextPid, disk, file, cfg, service_status, service_error,
                   service_lock, wk, mon, acks, nextCmd>>
    /\ UNCHANGED <<ctlVars, idxVars>>

\* a call of set_active_service(STRUCTURE_PATH, n) by the running agent
SetActiveService(n) ==
    /\ jc_call # Down
    /\ \E r \in SetActiveServiceResults(structure, n) :
          /\ structure' = r.structure
          /\ jc_call' = Call("set_active_service", n, r.outcome)
    /\ UNCHANGED <<proc, name, last_error, last_returncode, alive, proc_rc,
                   nextPid, disk, file, cfg, service_status, service_error,
                   service_lock, wk, mon, acks, nextCmd>>
    /\ UNCHANGED <<ctlVars, idxVars>>

\* ======================================================================
Init == InitController /\ InitAgent /\ InitJsonconfig

\* the supervised agent: boot, one SET_SERVICE and its transition worker,
\* the health monitor, and the children and the disk they depend on
NextAgent ==
    \/ BootStep
    \/ \E s \in CommandServices : nextCmd = 0 /\ HandleSetService(s)
    \/ \E r \in TransIds : TransitionStep(r)
    \/ MonitorStep
    \/ \E p \in Pids, rc \in RetCodes : Crash(p, rc)
    \/ DiskFill
    \/ DiskFree

SpecAgent == Init /\ [][NextAgent]_vars

\* the agent under overlapping commands: every SET_SERVICE gets its own
\* transition worker; the children stay up and the monitor has nothing to do
NextAgentCommands ==
    \/ BootStep
    \/ \E s \in CommandServices : HandleSetService(s)
    \/ \E r \in TransIds : TransitionStep(r)
    \/ DiskFill
    \/ DiskFree

SpecAgentCommands == Init /\ [][NextAgentCommands]_vars

\* the supervised agent while no child exits by itself
NextAgentSteady ==
    \/ BootStep
    \/ \E s \in CommandServices : nextCmd = 0 /\ HandleSetService(s)
    \/ \E r \in TransIds : TransitionStep(r)
    \/ MonitorStep
    \/ DiskFill
    \/ DiskFree

SpecAgentSteady == Init /\ [][NextAgentSteady]_vars

\* the supervised agent with its threads scheduled fairly: the main thread,
\* every transition worker and the monitor loop keep running
SpecAgentLive ==
    /\ Init
    /\ [][NextAgent]_vars
    /\ WF_vars(BootStep)
    /\ \A r \in TransIds : WF_vars(TransitionStep(r))
    /\ WF_vars(MonitorStep)

\* the protocol handler at work: DISCOVER and SET_SERVICE datagrams arrive
\* while transition workers run and children exit
NextAgentHandler ==
    \/ BootStep
    \/ HandleDiscover
    \/ \E s \in CommandNames : HandleSetService(s)
    \/ \E r \in TransIds : TransitionStep(r)
    \/ \E p \in Pids, rc \in RetCodes : Crash(p, rc)

SpecAgentHandler == Init /\ [][NextAgentHandler]_vars

\* SET_INDEX datagrams arrive while one SET_SERVICE transition runs; the
\* disk stays writable and the children stay up
NextAgentIndex ==
    \/ BootStep
    \/ \E s \in CommandNames : nextCmd = 0 /\ HandleSetService(s)
    \/ IndexStep
    \/ \E r \in TransIds : TransitionStepFile(r)

SpecAgentIndex == Init /\ [][NextAgentIndex]_vars

\* a SET_SERVICE and a second one that overlaps or follows it, while
\* DISCOVER datagrams arrive and children exit
NextAgentAcks ==
    \/ BootStep
    \/ HandleDiscover
    \/ \E s \in CommandNames : nextCmd <= 1 /\ HandleSetService(s)
    \/ \E r \in TransIds : TransitionStep(r)
    \/ \E p \in Pids, rc \in RetCodes : Crash(p, rc)

\* the same with the threads scheduled: the main thread boots and every
\* transition worker that was started keeps running
SpecAgentAcks ==
    /\ Init
    /\ [][NextAgentAcks]_vars
    /\ WF_vars(BootStep)
    /\ \A r \in TransIds : WF_vars(TransitionStep(r))

\* ------------------------------------------------------------ jsonconfig
\* structure.json as an earlier run left it: written by jsonconfig under the
\* catalog of that run (standby first, one entry enabled), or cut short
EarlierStructures ==
    {Unreadable} \cup
    {Readable([i \in DOMAIN names |-> [name |-> names[i], enabled |-> i = on]]) :
        <<names, on>> \in
            {<<ns, k>> \in
                (UNION {[1..n -> ConfigNames] : n \in 1..Cardinality(ConfigNames)})
                    \X (1..Cardinality(ConfigNames)) :
                /\ ns[1] = Standby
                /\ \A i, j \in DOMAIN ns : i # j => ns[i] # ns[j]
                /\ k \in DOMAIN ns}}

InitConfig ==
    /\ InitController
    /\ InitAgent
    /\ structure \in EarlierStructures
    /\ jc_call = Down

\* the persisted config over the restarts of the agent and its
\* set_active_service calls
NextConfig ==
    \/ EnsureConfig
    \/ \E n \in ConfigNames : SetActiveService(n)

SpecConfig == InitConfig /\ [][NextConfig]_vars

\* the controller with one device in the field
CtlSerials == {"s1"}
CtlServices == {"MIDI", "OSC"}

NextController ==
    \/ Start
    \/ Stop
    \/ \E s \in CtlSerials, svc \in CtlServices : BeginServiceChange(s, svc)
    \/ \E s \in CtlSerials, a \in PowerActions \cup {"halt"} : BeginPowerAction(s, a)
    \/ \E s \in CtlSerials, i \in 1..MaxIndex : BeginIndexUpdate(s, i)
    \/ \E t \in Threads : RequestStep(t)
    \/ \E s \in CtlSerials, i \in 0..MaxIndex : HandleAgentStatus(s, i)
    \/ \E m \in {a \in ServiceAcks : a.serial \in CtlSerials} :
            HandleServiceAckLookup(m)
    \/ HandleServiceAckUpdate
    \/ \E m \in {a \in TerminalAcks : a.serial \in CtlSerials} :
            HandleTerminalAck(m)

SpecController == Init /\ [][NextController]_vars

\* --------------------------------------------------------------- registry
\* the registry with the whole fleet reporting and the clock running; the
\* HTTP layer only reads
\* request_index_update as the listener runs it (broadcast.py line 133) when
\* no other thread is inside BroadcastManager: the thread that would deliver
\* the INDEX_ACK is the one that waits, so the wait of line 372 times out
ListenerRequestStep ==
    \/ IndexCheck("listen")
    \/ Register("listen")
    \/ SendCommand("listen")
    \/ WaitTimeout("listen")
    \/ TimeoutCleanup("listen")

NextRegistry ==
    \/ Start
    \/ Tick
    \/ ListDevices
    \/ ListenerRequestStep
    \/ \E s \in Serials, i \in 0..MaxIndex : HandleAgentStatus(s, i)
    \/ \E m \in {a \in ServiceAcks : a.serial \in CtlSerials} :
            HandleServiceAckLookup(m)
    \/ HandleServiceAckUpdate
    \/ \E m \in {a \in TerminalAcks : a.type = "SERVICE_ACK"
                                        => a.serial \in CtlSerials} :
            HandleTerminalAck(m)

SpecRegistry == Init /\ [][NextRegistry]_vars


\* --------------------------------------------------------------- exchange
\* the ack type an agent answers a command with
AckType(op) ==
    CASE op = "service" -> "SERVICE_ACK"
      [] op = "power" -> "POWER_ACK"
      [] OTHER -> "INDEX_ACK"

\* m answers a datagram the controller has sent: an agent copies the
\* request id, which is a fresh uuid, from the command it received
IsReply(m) ==
    \E d \in sent : /\ d.rid = m.rid /\ d.serial = m.serial
                    /\ AckType(d.type) = m.type

ReplyTransition(m) == IsReply(m) /\ HandleServiceAckLookup(m)

ReplyTerminal(m) == IsReply(m) /\ HandleTerminalAck(m)

\* the controller and an agent that answers what it is sent, in any order,
\* repeatedly, or not at all
NextExchange ==
    \/ Start
    \/ Stop
    \/ \E s \in CtlSerials, svc \in CtlServices : BeginServiceChange(s, svc)
    \/ \E s \in CtlSerials, a \in PowerActions \cup {"halt"} : BeginPowerAction(s, a)
    \/ \E s \in CtlSerials, i \in 1..MaxIndex : BeginIndexUpdate(s, i)
    \/ \E t \in Threads : RequestStep(t)
    \/ \E s \in CtlSerials, i \in 0..MaxIndex, tr \in BOOLEAN :
            HandleStatus(s, i, tr)
    \/ \E m \in ServiceAcks : ReplyTransition(m)
    \/ HandleServiceAckUpdate
    \/ \E m \in TerminalAcks : ReplyTerminal(m)

SpecExchange == Init /\ [][NextExchange]_vars

\* ---------------------------------------------------------------- devices
\* db.upsert_device(serial, host=.., device_index=index), db.py lines 177-221:
\* COALESCE(index, device_index) on a row, the given index on an insert
UpsertIndex(d, serial, index) ==
    IF d[serial].exists
    THEN [d EXCEPT ![serial].device_index = index]
    ELSE [d EXCEPT ![serial] = [exists |-> TRUE, device_index |-> index,
                                desired_service |-> "none"]]

\* DeviceRegistry.update_from_status, lines 22-38: ensure_device_index in a
\* connection of its own, then the registry entry under the registry lock
\* (the status of an agent at rest)
UpdateFromStatus(serial, reported) ==
    /\ Listening
    /\ LET assigned == EnsureDeviceIndex(db, serial)
       IN  /\ db' = EnsureDeviceIndexDb(db, serial)
           /\ devices' = [devices EXCEPT ![serial] = StatusEntry(assigned)]
           /\ lastStatusAt' = [lastStatusAt EXCEPT ![serial] = now]
           /\ service_state' = [service_state EXCEPT ![serial] = FALSE]
           /\ th' = [th EXCEPT !["listen"] =
                        [IdleThread EXCEPT
                            !.pc = "status_upsert", !.serial = serial,
                            !.index = assigned,
                            !.op = IF assigned # reported THEN "index"
                                   ELSE "none"]]
    /\ UNCHANGED <<pending, reqs, pending_index, command_socket, stop_evt,
                   sent, calls, listing, now, nextId>>
    /\ UNCHANGED agVars

\* DeviceRegistry.update_from_status, line 39, in a second connection with the
\* index read at line 22; then broadcast.py lines 131-135
UpdateFromStatusUpsert ==
    /\ th["listen"].pc = "status_upsert"
    /\ db' = UpsertIndex(db, th["listen"].serial, th["listen"].index)
    /\ IF th["listen"].op = "index"
       THEN /\ nextId < MaxReq
            /\ th' = [th EXCEPT !["listen"].pc = "idx_check"]
       ELSE th' = [th EXCEPT !["listen"] = IdleThread]
    /\ UNCHANGED <<pending, reqs, pending_index, command_socket, stop_evt,
                   sent, calls, devices, listing, lastStatusAt, now, nextId>>
    /\ UNCHANGED <<service_state, agVars>>

\* routes.api_update_device, lines 138-155: PUT /api/devices/{serial}
ApiUpdateDevice(serial, service) ==
    /\ th["http"].pc = "idle"
    /\ db' = UpsertDesired(db, serial, service)
    /\ UNCHANGED <<pending, reqs, pending_index, command_socket, stop_evt,
                   sent, th, calls, devices, listing, lastStatusAt, now,
                   nextId>>
    /\ UNCHANGED <<service_state, agVars>>

ReplyIndex(m) == IsReply(m) /\ HandleIndexAck(m)

\* the device table under status reports of the fleet (the listener thread)
\* and the operator's updates and deletions (the event loop)
NextDevices ==
    \/ Start
    \/ \E s \in Serials, i \in 0..MaxIndex : UpdateFromStatus(s, i)
    \/ UpdateFromStatusUpsert
    \/ \E s \in Serials : ApiUpdateDevice(s, "MIDI")
    \/ \E s \in Serials : ApiDeleteDevice(s)
    \/ ApiDeleteLoop
    \/ \E t \in Threads : RequestStep(t)
    \/ \E m \in IndexAcks : ReplyIndex(m)

SpecDevices == Init /\ [][NextDevices]_vars

\* ------------------------------------------------------------ convergence
\* the agent's AGENT_STATUS, which reports identity.index of self.cfg and
\* its service_status, reaches the listener (runtime.py _build_status_payload)
StatusArrives ==
    /\ wk[MainW].pc = "listen"
    /\ \E s \in CtlSerials :
          HandleStatus(s, cfg_index, service_status.transition)

\* a SET_INDEX the controller sent reaches the agent (once or more often)
SetIndexArrives ==
    \E d \in sent : d.type = "index" /\ HandleSetIndex(d.index)

\* a SET_INDEX datagram that carries no index reaches the agent
NoIndexArrives == HandleSetIndex(NoIndex)

\* the agent's last INDEX_ACK, which copies the request_id of its command,
\* reaches the listener
IndexAckArrives ==
    /\ index_ack # NoIndexAck
    /\ \E d \in sent :
          /\ d.type = "index"
          /\ HandleIndexAck(IndexAck(d.rid, d.serial, index_ack.ok,
                                     index_ack.index))

\* bootstrap lines 129-137: _apply_active_service of the configured service
\* on a fresh supervisor, where nothing runs yet and the name comes from the
\* catalog
BootApply ==
    \/ ApplyStandby(MainW)
    \/ ApplyStop(MainW)
    \/ ApplySpawn(MainW)
    \/ ApplyPersist(MainW)

\* a step of the listener's request_index_update in which sendto does not
\* raise: the datagram leaves the controller
ListenerSends ==
    /\ ListenerRequestStep
    /\ th'["listen"].result # "send_error"

\* one agent and its controller: the agent boots without an index, reports,
\* and is told its index; every datagram arrives, sooner or later
NextConverge ==
    \/ Start
    \/ \E initial \in Services : Bootstrap(initial)
    \/ BootApply
    \/ BootDone
    \/ BootFailed
    \/ StatusArrives
    \/ ListenerSends
    \/ SetIndexArrives
    \/ NoIndexArrives
    \/ IndexSetConfig
    \/ SendIndexAck
    \/ IndexAckArrives

\* the agent stays up and no datagram is lost: every step that can be taken
\* is taken in the end
SpecConverge ==
    /\ Init /\ [][NextConverge]_vars
    /\ WF_vars(Start) /\ WF_vars(\E initial \in Services : Bootstrap(initial))
    /\ WF_vars(BootApply) /\ WF_vars(BootDone) /\ WF_vars(BootFailed)
    /\ WF_vars(StatusArrives)
    /\ WF_vars(ListenerSends) /\ WF_vars(SetIndexArrives)
    /\ WF_vars(IndexSetConfig) /\ WF_vars(SendIndexAck)
    /\ WF_vars(IndexAckArrives)
\* ======================================================== controller claims

\* C1 (as claimed): for every serial, at most one SET_INDEX request is
\* outstanding at a time: of the request_index_update calls for one serial
\* that are in progress together, at most one has sent a SET_INDEX datagram.
OutstandingIndex(s) ==
    {d \in sent : /\ d.type = "index" /\ d.serial = s
                  /\ calls[d.rid].outcome = "active"
                  /\ ~reqs[d.rid].event}

C1_OneSetIndexOutstanding ==
    \A s \in Serials : Cardinality(OutstandingIndex(s)) <= 1

\* C2: an ack carrying request id R leaves every other entry of the pending
\* table in the table, unresolved and with its payload unchanged.
AckStep(m) ==
    \/ HandleTerminalAck(m)
    \/ HandleServiceAckLookup(m)
    \/ (th["listen"].msg = m /\ HandleServiceAckUpdate)

C2_AcksDoNotCrossResolve ==
    [][\A m \in ServiceAcks \cup TerminalAcks :
            AckStep(m) =>
                \A r2 \in pending \ {m.rid} :
                    r2 \in pending' /\ reqs'[r2] = reqs[r2]]_vars

\* an ack for one request id has resolved its entry while another entry is
\* still waiting in the table
C2_Witness ==
    \E r1, r2 \in ReqIds :
        /\ r1 # r2
        /\ r1 \notin pending /\ reqs[r1].event /\ reqs[r1].payload.src = "ack"
        /\ r2 \in pending /\ ~reqs[r2].event

\* C8: a request_service_change that ended by timeout raised the 504 timeout
\* error, which is not the 400 raised for an agent rejection, and its request
\* id is in the pending table in no later state.
C8_TimeoutRemovesPending ==
    /\ \A r \in ReqIds : calls[r].outcome = "timeout" => r \notin pending
    /\ \A t \in Threads :
          th[t].result = "timeout" =>
              th[t].status = HttpGatewayTimeout /\ th[t].status # HttpBadRequest
    /\ \A t \in Threads : th[t].result = "rejected" => th[t].status = HttpBadRequest

C8_Witness ==
    \E r \in ReqIds :
        /\ calls[r].op = "service" /\ calls[r].outcome = "timeout"
        /\ th["http"].op = "service" /\ th["http"].result = "timeout"
        /\ \E d \in sent : d.rid = r

\* C9: request_service_change for a serial that is not in the registry (or
\* whose entry has no ip) ends at once with the 400 validation error; it sends
\* nothing, registers nothing and leaves the device table unchanged.
C9_UnknownSerialRejected ==
    [][\A s \in Serials, svc \in Services :
            (BeginServiceChange(s, svc)
                /\ ~(devices[s].known /\ devices[s].ip)) =>
                /\ th'["http"].pc = "idle"
                /\ th'["http"].result = "validation"
                /\ th'["http"].status = HttpBadRequest
                /\ sent' = sent /\ pending' = pending /\ reqs' = reqs
                /\ nextId' = nextId /\ db' = db]_vars

C9_Witness ==
    /\ th["http"].pc = "idle" /\ th["http"].op = "service"
    /\ th["http"].result = "validation"
    /\ \E s \in CtlSerials : ~devices[s].known

\* C10 (as claimed): a device whose most recent AGENT_STATUS arrived
\* statusTtl or more ago is listed offline by every list_devices().
C10_OfflineAfterStatusTtl ==
    [][ListDevices =>
        \A s \in Serials :
            (devices[s].known /\ now - lastStatusAt[s] >= StatusTtl)
                => listing'[s] = "offline"]_vars

\* C10 (amended): list_devices() lists a known device as offline exactly when
\* its last_seen is statusTtl or more ago, where last_seen is refreshed by
\* every AGENT_STATUS and by every SERVICE_ACK that carries the serial; the
\* read stores nothing in the registry.
C10_OfflineAfterLastSeenTtl ==
    [][ListDevices =>
        /\ devices' = devices
        /\ \A s \in Serials :
            /\ devices[s].known =>
                (listing'[s] = "offline" <=>
                    now - devices[s].last_seen >= StatusTtl)
            /\ ~devices[s].known => listing'[s] = "absent"]_vars

\* a device that is still in the registry has been listed offline, its
\* last_seen being statusTtl or more ago
C10_Witness ==
    \E s \in Serials :
        /\ devices[s].known /\ listing[s] = "offline"
        /\ now - devices[s].last_seen >= StatusTtl

\* ============================================================ agent claims

\* C3 (as claimed): when the agent emits the terminal SERVICE_ACK of a
\* SET_SERVICE with ok=false, the service enabled in the config file is the
\* one that was enabled immediately before the request was handled.
C3_RollbackInvariant ==
    [][\A r \in TransIds : SendError(r) => file' = wk[r].pre]_vars

\* C4 (as claimed): at most one child worker process is alive.
C4_AtMostOneChild == Cardinality(alive) <= 1

\* C6 (as claimed): the "cerrando" ack is out before _apply_active_service
\* begins; the final ack of a request closes the sequence cerrando/5,
\* abriendo/80, completado/100; and when the final ack of a request for a
\* service other than standby is sent, that service is the expected one
\* and the supervisor runs it.
C6_AckSequenceThenRunning ==
    [][\A r \in TransIds :
          /\ ApplyStep(r) /\ wk[r].pc = "apply" => acks[r] = <<AckClosing>>
          /\ SendCompleted(r) =>
                /\ acks'[r] = <<AckClosing, AckOpening, AckCompleted>>
                /\ wk[r].service # Standby =>
                      /\ cfg' = wk[r].service
                      /\ proc' \in alive'
                      /\ name' = wk[r].service]_vars

\* the monitor's poll reads a crashed worker of the expected service
PollSeesCrash ==
    /\ MonitorRead
    /\ cfg # Standby /\ name = cfg
    /\ proc # NoPid /\ proc \notin alive /\ proc_rc \in RetCodes

\* the poll recorded the error with the return code it read, and goes on to
\* relaunch the service it read as expected
PollRecordsAndRelaunches ==
    (MonitorDecide /\ mon.expected # Standby /\ ~mon.running) =>
        /\ service_error'.kind = "crash"
        /\ service_error'.svc = mon.expected
        /\ service_error'.rc = mon.rc
        /\ wk'[MonW].pc = "apply"
        /\ wk'[MonW].service = mon.expected
        /\ ~wk'[MonW].fallback

\* the relaunch (not the fallback to standby) that follows a poll which read
\* a return code has returned without raising
RelaunchReturned ==
    /\ ApplyStep(MonW)
    /\ ~wk[MonW].fallback
    /\ mon.rc \in RetCodes
    /\ wk'[MonW].pc = "applied"

\* the supervisor holds the process of the relaunched service, and as long
\* as that process has not exited again lastError is clear
RunningExpected ==
    /\ cfg' = wk[MonW].service
    /\ name' = wk[MonW].service
    /\ proc' # NoPid
    /\ proc' \in alive' => last_error' = "none" /\ last_returncode' = NoRc

AgentUnhealthy ==
    /\ wk[MainW].pc = "listen"
    /\ cfg # Standby
    /\ ~IsRunning

\* the expected service runs, or the expected service is standby
AgentCorrected ==
    \/ cfg = Standby
    \/ IsRunning /\ name = cfg

ReportedIndexes == 0..MaxIndex

\* C11: the registry and the device table are keyed by serial, so each holds
\* at most one entry per serial; an AGENT_STATUS from a serial whose row
\* already has an index leaves the device table as it was, records that
\* same index in the serial's registry entry whatever index the agent
\* reports, and touches no other serial's entry
C11_StatusKeepsAssignedIndex ==
    [][\A s \in Serials, i \in ReportedIndexes :
          (HandleAgentStatus(s, i) /\ db[s].exists /\ db[s].device_index # 0)
          => /\ db' = db
             /\ devices'[s].known
             /\ devices'[s].index = db[s].device_index
             /\ \A o \in Serials \ {s} : devices'[o] = devices[o]]_vars

\* s1 registered first and s2 second; s1 has since reported again, with an
\* index other than its own, and kept index 1
C11_Witness ==
    /\ db["s1"].device_index = 1 /\ db["s2"].device_index = 2
    /\ lastStatusAt["s1"] > lastStatusAt["s2"]
    /\ devices["s1"].index = 1
    /\ th["listen"].pc = "idx_check" /\ th["listen"].serial = "s1"

\* C12: the corrective SET_INDEX is issued asynchronously: the listen loop
\* is never inside the wait for a request's reply, so it stays free to
\* receive the next datagram while its SET_INDEX is outstanding
C12_ListenLoopNeverWaits == th["listen"].pc # "wait"

\* C13: while a transition worker is between the stop of the old process
\* and the start of the new one, the protocol handler is not blocked: it
\* can take what it needs to answer a DISCOVER or a further command
C13_HandlerNotBlockedByTransition ==
    \A r \in TransIds :
        (wk[MainW].pc = "listen" /\ wk[r].pc = "spawn") => HandlerReady

\* C14: once a request_service_change, request_power_action or
\* request_index_update call has returned or raised, whatever ended it, the
\* pending table holds no entry for the call's request id
C14_PendingNeverOutlivesCall ==
    \A r \in ReqIds :
        calls[r].outcome \notin {"unused", "active"} => r \notin pending

\* one call has returned the agent's terminal ack and another has raised
\* on a failed send
C14_Witness ==
    \E r1, r2 \in ReqIds :
        /\ calls[r1].outcome = "ok" /\ calls[r2].outcome = "send_error"
        /\ pending = {}

\* C15: the per-serial dedup marker is released on every way a
\* request_index_update call ends: a serial is marked outstanding only
\* while some thread is inside a request_index_update call for it, past
\* its registration
C15_MarkerReleasedWhenCallEnds ==
    \A s \in Serials :
        s \in pending_index =>
            \E t \in Threads : /\ th[t].op = "index" /\ th[t].serial = s
                               /\ th[t].pc \in {"send", "wait", "timeout"}

\* C16: a failed send resolves and removes the pending request of the
\* command that failed, and leaves the pending requests of other in-flight
\* commands in the table, unresolved
C16_SendFailureResolvesOwnOnly ==
    [][\A t \in Threads :
          (SendCommand(t) /\ th'[t].result = "send_error")
          => /\ th[t].rid \notin pending'
             /\ \A r2 \in pending \ {th[t].rid} :
                    r2 \in pending' /\ reqs'[r2] = reqs[r2]]_vars

\* C17: after BroadcastManager.stop, once the request_* calls that were in
\* progress (one registered concurrently with stop included) have ended,
\* the pending table and the index dedup set are empty
C17_EmptyAfterShutdown ==
    (stop_evt /\ \A t \in Threads : th[t].pc = "idle")
    => (pending = {} /\ pending_index = {})

\* C18: an ack whose request id is not in the pending table is ignored by
\* the correlation layer: it resolves no waiter and changes neither the
\* pending table nor the index dedup markers
C18_UnmatchedAckIgnored ==
    [][\A m \in ServiceAcks \cup TerminalAcks :
          (AckStep(m) /\ m.rid \notin pending)
          => /\ pending' = pending
             /\ pending_index' = pending_index
             /\ \A r \in ReqIds : reqs'[r].event = reqs[r].event]_vars

\* C19: a SERVICE_ACK with transition=true leaves the pending table as it
\* is and sets no event, so the waiter stays blocked; and a reply that
\* request_service_change returns is the payload of a terminal ack
C19_TransitionAckOnlyUpdates ==
    [][/\ \A m \in ServiceAcks :
             (m.transition /\ AckStep(m))
             => /\ pending' = pending
                /\ \A r \in ReqIds : reqs'[r].event = reqs[r].event
       /\ \A t \in Threads :
             (WaitReturn(t) /\ th[t].op = "service" /\ th'[t].result = "ok")
             => LET reply == reqs[th[t].rid].payload
                IN  reply.src = "ack" /\ ~reply.transition /\ reply.ok]_vars

\* a transition ack has been stored in the entry of a service request that
\* is still in the table, its caller still waiting
C19_Witness ==
    \E r \in pending :
        /\ reqs[r].payload.src = "ack" /\ reqs[r].payload.transition
        /\ ~reqs[r].event
        /\ th["http"].pc = "wait" /\ th["http"].rid = r
        /\ th["http"].op = "service"

\* the indexes held by the rows of the device table d
UsedIndexes(d) == {d[o].device_index : o \in {x \in Serials : d[x].exists}} \ {0}

\* n is the smallest integer from `first` on that is not in used
SmallestUnusedFrom(first, n, used) ==
    /\ n >= first
    /\ n \notin used
    /\ \A k \in first..(n - 1) : k \in used

\* an AGENT_STATUS of serial s, which has no row in the device table
FirstStatus(s) == ~db[s].exists /\ \E i \in ReportedIndexes : HandleAgentStatus(s, i)

\* C20 as stated: a serial that is not yet known is assigned the smallest
\* non-negative integer that is no known device's index, and the index is
\* persisted by the time the status update returns
C20_SmallestNonNegativeIndex ==
    [][\A s \in Serials :
          FirstStatus(s)
          => /\ db'[s].exists
             /\ devices'[s].index = db'[s].device_index
             /\ SmallestUnusedFrom(0, db'[s].device_index, UsedIndexes(db))]_vars

\* C20 amended: a serial that is not yet known is assigned the smallest
\* integer from 1 on that is not the index of any row of the device table,
\* and the index is persisted by the time the status update returns
C20_SmallestPositiveIndex ==
    [][\A s \in Serials :
          FirstStatus(s)
          => /\ db'[s].exists
             /\ devices'[s].index = db'[s].device_index
             /\ SmallestUnusedFrom(1, db'[s].device_index, UsedIndexes(db))]_vars

\* two serials have been registered, the second after the first: they hold
\* indexes 1 and 2
C20_Witness ==
    /\ devices["s1"].known /\ devices["s2"].known
    /\ {db["s1"].device_index, db["s2"].device_index} = {1, 2}
    /\ lastStatusAt["s1"] # lastStatusAt["s2"]

\* ------------------------------------------------------------ C21 .. C30
\* C21: when start_service fails inside _apply_active_service for a
\* service other than standby, start_service(previous) is attempted as a
\* rollback before the error propagates, and the error that propagates is
\* the start failure
C21_StartFailureRollsBack ==
    [][\A w \in Workers :
          (ApplySpawn(w) /\ wk'[w].pc = "failed")
          => /\ wk'[w].rollback
             /\ wk'[w].err = ErrorText("start_failed", wk[w].service)]_vars

\* a step of the SET_SERVICE request r, which names no service of the
\* catalog
InvalidRequestStep(r) == wk[r].service \notin Services /\ TransitionStep(r)

\* C22: a SET_SERVICE whose service name is empty or not in the catalog
\* fails validation and changes nothing: whatever runs keeps running, the
\* persisted and the in-memory desired service stay, and the request's
\* terminal ack has ok=false
C22_InvalidServiceChangesNothing ==
    [][/\ \A s \in CommandNames \ Services :
             HandleSetService(s)
             => /\ proc' = proc /\ name' = name /\ alive' = alive
                /\ file' = file /\ cfg' = cfg
       /\ \A r \in TransIds :
             InvalidRequestStep(r)
             => /\ proc' = proc /\ name' = name /\ alive' = alive
                /\ file' = file /\ cfg' = cfg
                /\ wk[r].pc = "apply" =>
                      /\ wk'[r].pc = "failed"
                      /\ wk'[r].err.kind \in {"empty_service",
                                              "unknown_service"}
                /\ acks'[r] # acks[r] =>
                      /\ acks'[r] = Append(acks[r], acks'[r][Len(acks'[r])])
                      /\ ~acks'[r][Len(acks'[r])].ok
                      /\ ~acks'[r][Len(acks'[r])].transition]_vars

\* a request with an invalid name has got its terminal ack, ok=false,
\* while the expected service runs as before
C22_Witness ==
    \E r \in TransIds :
        /\ wk[r].pc = "done"
        /\ Len(acks[r]) = 2 /\ ~acks[r][2].ok /\ ~acks[r][2].transition
        /\ service_error.kind \in {"empty_service", "unknown_service"}
        /\ cfg # Standby /\ IsRunning /\ name = cfg /\ file = cfg

\* get_status() on the supervisor state s: running, name and pid
Status(s) ==
    [running |-> Running(s), name |-> s.name,
     pid |-> IF Running(s) THEN s.proc ELSE NoPid]

\* C23: whenever stop_service returns, whether the child went away, had
\* to be killed or the termination raised, the supervisor holds no process
\* handle and get_status reports running=false with the name cleared; and
\* get_status never reports running without a handle
C23_StopClearsHandle ==
    /\ \A o \in StopOutcomes :
          LET t == StopService(Sup, o)
          IN  /\ t.proc = NoPid
              /\ Status(t) = [running |-> FALSE, name |-> "none",
                              pid |-> NoPid]
    /\ Status(Sup).running => proc # NoPid

\* a stop whose termination raised has returned: the handle is gone, the
\* name is cleared, and the child it could not stop is still there
C23_Witness ==
    /\ last_error = "terminate"
    /\ proc = NoPid /\ name = "none"
    /\ alive # {}

\* C24: when the spawn of start_service fails, the call returns failure
\* (_apply_active_service raises the start error), the supervisor holds no
\* process handle, get_status reports running=false with no pid, and
\* last_error is the text of the spawn error
C24_SpawnFailureClearsHandle ==
    [][\A w \in Workers :
          (ApplySpawn(w) /\ wk'[w].pc # "persist")
          => /\ wk'[w].pc = "failed"
             /\ wk'[w].err = ErrorText("start_failed", wk[w].service)
             /\ proc' = NoPid /\ name' = "none"
             /\ ~(proc' # NoPid /\ proc' \in alive')
             /\ last_error' = "spawn"]_vars

\* a spawn has failed after the previous service was stopped: no handle,
\* nothing runs, the spawn error is recorded and the call has raised
C24_Witness ==
    \E r \in TransIds :
        /\ wk[r].pc = "failed"
        /\ wk[r].err = ErrorText("start_failed", wk[r].service)
        /\ proc = NoPid /\ alive = {} /\ last_error = "spawn"
        /\ ~Status(Sup).running /\ Status(Sup).pid = NoPid
        /\ cfg \in Services \ {Standby}

\* C25: a SET_INDEX handled while a SET_SERVICE transition persists the
\* desired service loses neither update: once the handler has sent its
\* INDEX_ACK with ok=true and _apply_active_service has returned, the file
\* and self.cfg hold both the acknowledged index and the requested service
C25_NeitherUpdateLost ==
    \A r \in TransIds :
        (/\ wk[r].pc \in {"applied", "opened"}
         /\ wk[MainW].pc = "listen"
         /\ index_ack.ok)
        => /\ file = wk[r].service /\ file_index = index_ack.index
           /\ cfg = wk[r].service /\ cfg_index = index_ack.index

\* the SET_SERVICE r has got its final ack with ok=true
Completed(r) == Len(acks[r]) = 3 /\ acks[r][3] = AckCompleted

\* the expected service is what the supervisor runs (nothing, for standby)
Settled ==
    IF cfg = Standby THEN ~IsRunning ELSE IsRunning /\ name = cfg

\* C26: once the only SET_SERVICE has completed with a final ack ok=true
\* and left its service expected and running, and no child exits by
\* itself, no later step changes the expected service or the process: the
\* monitor does not act on a reading taken before the transition finished
C26_MonitorDoesNotUndo ==
    [][(\E r \in TransIds : Completed(r)) /\ Settled
       => /\ cfg' = cfg
          /\ proc' = proc /\ name' = name /\ alive' = alive]_vars

\* C27: _apply_active_service(S) called while S is the expected service,
\* is the one persisted and runs neither stops nor starts a process (same
\* pid before and after) and leaves S as the persisted desired service
C27_SameServiceIsNoOp ==
    [][\A w \in Workers :
          (/\ ApplyStep(w)
           /\ wk[w].pc = "apply"
           /\ wk[w].service = cfg /\ file = cfg
           /\ AlreadyRunning(Sup, wk[w].service))
          => /\ proc' = proc /\ alive' = alive /\ name' = name
             /\ file' = wk[w].service]_vars

\* C28: _apply_active_service(standby), whatever the state it is called
\* in, stops the running worker and launches nothing; when it returns, the
\* supervisor runs no process, standby is the expected and the persisted
\* service, and the recorded error is cleared
C28_StandbyStopsEverything ==
    [][\A w \in Workers :
          /\ ApplyStandby(w) =>
                /\ nextPid' = nextPid
                /\ IsRunning => proc \notin alive'
          /\ (/\ ApplyPersist(w)
              /\ wk[w].service = Standby
              /\ wk'[w].pc = "applied")
             => /\ nextPid' = nextPid
                /\ ~(proc' # NoPid /\ proc' \in alive')
                /\ cfg' = Standby /\ file' = Standby
                /\ service_error' = NoError]_vars

\* C29: when the monitor's relaunch of the expected service has failed and
\* its fallback _apply_active_service(standby) returns, within that poll
\* standby is the expected and the persisted service and no child process
\* runs
C29_FallbackLeavesStandby ==
    [][(/\ ApplyPersist(MonW)
        /\ wk[MonW].fallback
        /\ wk'[MonW].pc = "applied")
       => /\ cfg' = Standby /\ file' = Standby
          /\ alive' = {}]_vars

\* the acks of request r that are terminal (transition=false)
FinalAcks(r) == {i \in 1..Len(acks[r]) : ~acks[r][i].transition}

C31_DesiredPersistedOnlyOnOk ==
    [][\A s \in Serials, svc \in Services :
          /\ BeginServiceChange(s, svc) => db' = db
          /\ (th["http"].op = "service" /\ th["http"].pc # "idle"
              /\ RequestStep("http")) =>
                LET reply == reqs[th["http"].rid].payload
                IN  IF /\ WaitReturn("http")
                       /\ reply.src = "ack" /\ reply.ok /\ ~reply.transition
                    THEN /\ th'["http"].result = "ok"
                         /\ db' = UpsertDesired(db, th["http"].serial,
                                               th["http"].service)
                    ELSE /\ db' = db
                         /\ th'["http"].pc = "idle" =>
                               th'["http"].result \in
                                  {"timeout", "send_error", "no_socket",
                                   "rejected"}]_vars

\* a request_service_change has returned ok and the table holds its service
C31_Witness ==
    /\ th["http"].pc = "idle" /\ th["http"].op = "service"
    /\ th["http"].result = "ok"
    /\ \E s \in CtlSerials :
          db[s].exists /\ db[s].desired_service \in {"MIDI", "OSCnum"}

\* C32: a pending request is resolved at most once: once its event is set
\* (by a terminal ack, by the send-failure sweep or by stop()), no later
\* step of the listener, of a requesting thread or of stop() writes its
\* payload or sets its event again
C32_ResolvedAtMostOnce ==
    [][\A r \in ReqIds : reqs[r].event => reqs'[r] = reqs[r]]_vars

\* every resolving path has been taken in one run: a request resolved by a
\* terminal ack and another by stop() or by the send-failure sweep
C32_Witness ==
    \E r1, r2 \in ReqIds :
        /\ reqs[r1].event /\ reqs[r1].payload.src = "ack"
        /\ reqs[r2].event
        /\ reqs[r2].payload.src \in {"shutdown", "send_error"}
        /\ stop_evt

\* C34: after any AGENT_STATUS upserts, device updates through the HTTP layer
\* and device deletions, no two rows of the device table have the same
\* device_index, and every row of a device that has reported has an index
C34_IndexesDistinct ==
    /\ \A a, b \in Serials :
          (a # b /\ db[a].exists /\ db[b].exists)
              => db[a].device_index # db[b].device_index
    /\ \A s \in Serials :
          (db[s].exists /\ devices[s].known) => db[s].device_index # 0

\* C33: delete_device leaves the N remaining rows with the indexes 1..N in
\* their previous order, and the request_index_update that the delete route
\* then makes for an online device whose registry index differs from its new
\* index sends that device a SET_INDEX (or reports that the send failed)
C33_DeleteResequencesAndNotifies ==
    [][/\ \A s \in Serials :
            ApiDeleteDevice(s) =>
                LET rest == {r \in Serials : r # s /\ db[r].exists}
                IN  /\ {r \in Serials : db'[r].exists} = rest
                    /\ {db'[r].device_index : r \in rest}
                            = 1..Cardinality(rest)
                    /\ \A a, b \in rest :
                          db[a].device_index < db[b].device_index
                              => db'[a].device_index < db'[b].device_index
       /\ (th["http"].loop /\ th["http"].pc # "del_loop"
                /\ th'["http"].pc = "del_loop")
            => \/ \E d \in sent' : /\ d.type = "index"
                                   /\ d.serial = th["http"].serial
                                   /\ d.rid = th["http"].rid
               \/ th'["http"].result \in {"send_error", "no_socket"}]_vars

\* the last SET_SERVICE sent to serial s was resolved by its terminal ack
Finished(s) ==
    \E d \in sent :
        /\ d.type = "service" /\ d.serial = s
        /\ reqs[d.rid].event /\ reqs[d.rid].payload.src = "ack"
        /\ \A e \in sent : (e.type = "service" /\ e.serial = s) => e.rid <= d.rid

\* C35: once the terminal SERVICE_ACK of a request has been processed and the
\* registry shows transition=false for the device, it goes on showing false
\* until a new SET_SERVICE is sent or an AGENT_STATUS of the device arrives,
\* whatever acks of the request are delivered afterwards
C35_FinishedStaysFinished ==
    [][\A s \in Serials :
          (/\ Finished(s) /\ Finished(s)'
           /\ ~service_state[s]
           /\ ~\E i \in 0..MaxIndex, tr \in BOOLEAN : HandleStatus(s, i, tr))
              => ~service_state'[s]]_vars

\* structure.json parses and exactly one entry of its services is enabled
OneEnabled(st) ==
    /\ st.readable
    /\ Cardinality({i \in DOMAIN st.services : st.services[i].enabled}) = 1

\* C36: after every set_active_service and every catalog synchronisation
\* exactly one service entry of the persisted config is enabled, and a
\* set_active_service for a name that is not in the catalog raises and leaves
\* the file as it was
C36_ExactlyOneEnabled ==
    [][/\ (EnsureConfig \/ \E n \in ConfigNames : SetActiveService(n))
            => OneEnabled(structure')
       /\ \A n \in ConfigNames \ CatalogNames :
            SetActiveService(n) => /\ jc_call'.outcome = "ValueError"
                                   /\ structure' = structure]_vars

\* the index the controller assigned to the agent's serial
AssignedIndex == db["s1"].device_index

\* the listener has just handled an AGENT_STATUS whose index differs from
\* the assigned one
StatusMismatch ==
    /\ th["listen"].pc = "idx_check"
    /\ th["listen"].op = "index"

\* persisted, reported and registry index all equal the assigned index
Converged ==
    /\ AssignedIndex # NoIndex
    /\ file_index = AssignedIndex
    /\ cfg_index = AssignedIndex
    /\ devices["s1"].index = AssignedIndex

\* C37: with the agent up and no datagram lost, after an AGENT_STATUS that
\* reports an index different from the assigned one the agent's persisted
\* index and the registry's index eventually equal the assigned index and
\* stay so; a SET_INDEX with an index is persisted as it arrives and acked
\* ok=true with that index, one without an index is acked ok=false and
\* persists nothing; an AGENT_STATUS handled after that starts no SET_INDEX
C37_IndexConverges ==
    /\ StatusMismatch ~> Converged
    /\ [][Converged => Converged']_vars
    /\ [][SetIndexArrives => file_index' \in {d.index : d \in sent}]_vars
    /\ [][SendIndexAck => index_ack' = [ok |-> TRUE, index |-> file_index]]_vars
    /\ [][NoIndexArrives =>
            /\ index_ack' = [ok |-> FALSE, index |-> NoIndex]
            /\ file_index' = file_index]_vars
    /\ [][Converged /\ StatusArrives => th'["listen"] = IdleThread]_vars

\* the agent has acked ok=true, the listener has handled the INDEX_ACK and
\* a later AGENT_STATUS, and the three indexes agree
C37_Witness ==
    /\ Converged
    /\ index_ack = [ok |-> TRUE, index |-> AssignedIndex]
    /\ pending_index = {}
    /\ lastStatusAt["s1"] = now
    /\ th["listen"] = IdleThread
    /\ \E d \in sent : d.type = "index"

\* start_service(service) on the supervisor state s performs a stop
StartStops(s, service) ==
    Running(s) /\ (service = Standby \/ s.name # service)

\* C38: a terminate that fails makes the operation that performed it
\* return failure with last_error set to the error text, whether the
\* operation is stop_service, start_service(standby) or start_service of
\* another service
C38_TerminateFailureReported ==
    \A so \in {o \in StopOutcomes : o.raised} :
        /\ Running(Sup)
              => /\ ~StopReturn(Sup, so)
                 /\ StopService(Sup, so).last_error = "terminate"
        /\ \A service \in Services, po \in SpawnOutcomes :
              (StartStops(Sup, service) /\ SpawnAllowed(Sup, po))
              => /\ ~StartReturn(Sup, service, so, po)
                 /\ StartService(Sup, service, so, po).last_error
                        = "terminate"

\* no SET_SERVICE transition, SET_INDEX handling, boot or monitor action is
\* in flight: the main thread waits for a datagram, the monitor sleeps
\* between two polls, every transition worker has ended
Quiescent ==
    /\ wk[MainW].pc = "listen"
    /\ wk[MonW].pc = "read"
    /\ \A r \in TransIds : wk[r].pc \in {"idle", "done"}
    /\ service_lock = Unlocked

\* the child the supervisor holds has not exited
WorkerNotExited == proc # NoPid => proc \in alive

\* C39: at quiescence, and when the worker has not exited by itself, the
\* service enabled in the file, the expected service self.cfg and the name
\* of the supervisor's running process are the same service, or the
\* expected service is standby and no process runs
C39_ViewsAgreeAtQuiescence ==
    (Quiescent /\ WorkerNotExited)
    => \/ file = cfg /\ IsRunning /\ name = cfg
       \/ cfg = Standby /\ ~IsRunning

====
